---- MODULE Spec2Model ----
(***************************************************************************)
(* Model of ap_common/calibration_matching.py: the calibration-frame       *)
(* matchers find_matching_dark, find_matching_bias and find_matching_flat  *)
(* and the helpers they are built from.                                    *)
(*                                                                         *)
(* Representation.                                                         *)
(*  - A Python str is a sequence of one-character strings, so that         *)
(*    slicing, upper-casing and parsing are computed on the characters.    *)
(*  - A metadata value is None, a number or a str: Python's None, float    *)
(*    and str.  A float is a fixed-point integer counting units of 1/2000  *)
(*    (0.0005), so that differences smaller than the 0.001 exactness       *)
(*    epsilon exist; NaN is a value of its own, with the comparisons of a  *)
(*    float NaN.  The infinities are outside the model.                    *)
(*  - A metadata dict is a record over the normalized keys; dict.get()     *)
(*    makes a missing key and a key holding None indistinguishable, so a   *)
(*    missing key is the value None.                                       *)
(*  - The calibration pool (an insertion-ordered dict) is a sequence of    *)
(*    [filename, meta] entries with distinct filenames.                    *)
(*                                                                         *)
(* The module also models ap_common/logging_config.py: setup_logging and   *)
(* get_logger over the loggers of Python's logging module.  A logger is    *)
(* its level and its list of handlers; a logger the logging module has not *)
(* created yet is a logger with level NOTSET and no handler, which is what *)
(* logging.getLogger creates.  A logger object is identified by its name.  *)
(*                                                                         *)
(* The module also models ap_common/progress.py: progress_iter and the     *)
(* ProgressTracker class over tqdm progress bars.  A bar is a record of    *)
(* what the calls of progress.py can change of it: whether it is closed,   *)
(* its counter, its postfix and its description.  tqdm is a library the    *)
(* repository imports: its iteration yields the items of the iterable it   *)
(* wraps and closes the bar when the iterable is exhausted, close() is     *)
(* idempotent, and a bar nothing refers to any more is closed by its       *)
(* finalizer when the interpreter collects it.                             *)
(*                                                                         *)
(* Matcher calls that several threads make on one pool are modelled step   *)
(* by step: a step is the start of a call, one round of its loop over the  *)
(* pool, or its return, and the steps of the threads interleave freely.    *)
(***************************************************************************)
EXTENDS Integers, Sequences, FiniteSets, TLC

VARIABLES
    light,        \* light_metadata of the calls
    pool,         \* calibration_data of the calls
    call,         \* the last call: function name and keyword arguments
    light_date,   \* find_matching_flat's local light_date at return
    candidates,   \* the local candidates list at return (after the sort)
    result,       \* the value the last call returned
    raised,       \* the exception the last call raised, if any
    loggers,      \* the loggers of the logging module, by name
    _logger,      \* logging_config's module-level default logger
    logging_call, \* the last call of logging_config: function and arguments
    returned_logger, \* the logger the last call of logging_config returned
    tracker,      \* the ProgressTracker object, once created
    bars,         \* the tqdm progress bars created so far, in order of creation
    loop,         \* the caller's for loop: its iterator and the items it got
    progress_raised, \* the exception the last call of progress raised, if any
    frames        \* the frame of each thread that runs matcher calls on the pool

\* the state of logging_config and of the logging module
logging_vars == <<loggers, _logger, logging_call, returned_logger>>

\* the state of progress: the tracker, the bars and the caller's loop
progress_vars == <<tracker, bars, loop, progress_raised>>

\* the frame of a matcher call and its arguments
matcher_vars == <<light, pool, call, light_date, candidates, result, raised>>

\* the frames of the threads that call the matchers concurrently
thread_vars == <<frames>>

vars == <<matcher_vars, logging_vars, progress_vars, thread_vars>>

----------------------------------------------------------------------------
(* Values *)

None == [k |-> "none", n |-> 0, s |-> <<>>]

Num(x) == [k |-> "num", n |-> x, s |-> <<>>]

Str(t) == [k |-> "str", n |-> 0, s |-> t]

\* n whole units (seconds, degrees, gain steps) as a float of the model
Units(n) == n * 2000

Abs(x) == IF x < 0 THEN -x ELSE x

\* float("nan"): a float that is not a number
NaN == [k |-> "nan", n |-> 0, s |-> <<>>]

\* a < b of two floats: False when either is NaN
FloatLess(a, b) == a.k = "num" /\ b.k = "num" /\ a.n < b.n

\* a >= b of two floats: False when either is NaN
FloatAtLeast(a, b) == a.k = "num" /\ b.k = "num" /\ a.n >= b.n

\* a != b of two floats: True when either is NaN
FloatNotEqual(a, b) == a.k = "nan" \/ b.k = "nan" \/ a # b

\* a - b of two floats: NaN when either is NaN
FloatDifference(a, b) ==
    IF a.k = "nan" \/ b.k = "nan" THEN NaN ELSE Num(a.n - b.n)

\* abs(a) < bound and abs(a) > bound of a float: False for NaN
AbsBelow(a, bound) == a.k = "num" /\ Abs(a.n) < bound
AbsAbove(a, bound) == a.k = "num" /\ Abs(a.n) > bound

Digits == {"0", "1", "2", "3", "4", "5", "6", "7", "8", "9"}

DigitVal(c) ==
    CASE c = "0" -> 0 [] c = "1" -> 1 [] c = "2" -> 2 [] c = "3" -> 3
      [] c = "4" -> 4 [] c = "5" -> 5 [] c = "6" -> 6 [] c = "7" -> 7
      [] c = "8" -> 8 [] c = "9" -> 9

\* the value of a sequence of decimal digits
RECURSIVE DecVal(_)
DecVal(ds) ==
    IF ds = <<>> THEN 0
    ELSE 10 * DecVal(SubSeq(ds, 1, Len(ds) - 1)) + DigitVal(ds[Len(ds)])

AllDigits(ds) == ds # <<>> /\ \A i \in 1..Len(ds) : ds[i] \in Digits

\* the mutated conversion: text that is no number counts as 0.0
FloatOfStrOrZero(t) ==
    IF AllDigits(t) THEN Num(Units(DecVal(t)))
    ELSE IF t # <<>> /\ t[1] = "-" /\ AllDigits(Tail(t))
         THEN Num(-Units(DecVal(Tail(t))))
    ELSE IF t # <<>> /\ t[1] = "+" /\ AllDigits(Tail(t))
         THEN Num(Units(DecVal(Tail(t))))
    ELSE Num(0)

\* the mutated read: text that is no number counts as 0.0 instead of None
_get_float_value_or_zero(metadata, key) ==
    LET value == metadata[key] IN
    IF value = None THEN None
    ELSE IF value.k = "num" THEN value
    ELSE FloatOfStrOrZero(value.s)

\* float(value) of a str: an optionally signed run of decimal digits is the
\* number it writes and "nan" is NaN; any other text of the model's inputs
\* raises ValueError, which is the result None here.
FloatOfStr(t) ==
    IF AllDigits(t) THEN Num(Units(DecVal(t)))
    ELSE IF t = <<"n", "a", "n">> THEN NaN
    ELSE IF t # <<>> /\ t[1] = "-" /\ AllDigits(Tail(t))
         THEN Num(-Units(DecVal(Tail(t))))
    ELSE IF t # <<>> /\ t[1] = "+" /\ AllDigits(Tail(t))
         THEN Num(Units(DecVal(Tail(t))))
    ELSE None

_get_float_value(metadata, key) ==
    LET value == metadata[key] IN
    IF value = None THEN None
    ELSE IF value.k \in {"num", "nan"} THEN value
    ELSE FloatOfStr(value.s)

\* str(value) of a str is the str itself; the model's text fields hold
\* None or a str.
_get_str_value(metadata, key) ==
    LET value == metadata[key] IN
    IF value = None THEN None ELSE value

----------------------------------------------------------------------------
(* Frame types *)

UpperChar(c) ==
    CASE c = "a" -> "A" [] c = "b" -> "B" [] c = "c" -> "C" [] c = "d" -> "D"
      [] c = "e" -> "E" [] c = "f" -> "F" [] c = "g" -> "G" [] c = "h" -> "H"
      [] c = "i" -> "I" [] c = "j" -> "J" [] c = "k" -> "K" [] c = "l" -> "L"
      [] c = "m" -> "M" [] c = "n" -> "N" [] c = "o" -> "O" [] c = "p" -> "P"
      [] c = "q" -> "Q" [] c = "r" -> "R" [] c = "s" -> "S" [] c = "t" -> "T"
      [] c = "u" -> "U" [] c = "v" -> "V" [] c = "w" -> "W" [] c = "x" -> "X"
      [] c = "y" -> "Y" [] c = "z" -> "Z" [] OTHER -> c

Upper(t) == [i \in 1..Len(t) |-> UpperChar(t[i])]

TYPE_DARK == <<"D", "A", "R", "K">>
TYPE_FLAT == <<"F", "L", "A", "T">>
TYPE_BIAS == <<"B", "I", "A", "S">>
TYPE_MASTER_DARK == <<"M", "A", "S", "T", "E", "R", " ">> \o TYPE_DARK
TYPE_MASTER_FLAT == <<"M", "A", "S", "T", "E", "R", " ">> \o TYPE_FLAT
TYPE_MASTER_BIAS == <<"M", "A", "S", "T", "E", "R", " ">> \o TYPE_BIAS

\* tag occurs in text
Contains(text, tag) ==
    \E k \in 1..(Len(text) - Len(tag) + 1) : SubSeq(text, k, k + Len(tag) - 1) = tag

\* the mutated type test: the tag is looked for in the type ("in" for "==")
_is_calibration_type_containing(metadata, calibration_type, master_type) ==
    LET frame_type == _get_str_value(metadata, "type") IN
    IF frame_type = None THEN FALSE
    ELSE \/ Contains(Upper(frame_type.s), calibration_type)
         \/ Contains(Upper(frame_type.s), master_type)

_is_calibration_type(metadata, calibration_type, master_type) ==
    LET frame_type == _get_str_value(metadata, "type") IN
    IF frame_type = None THEN FALSE
    ELSE LET frame_type_upper == Upper(frame_type.s) IN
         frame_type_upper = calibration_type \/ frame_type_upper = master_type

----------------------------------------------------------------------------
(* Camera settings *)

\* the mutated camera check: the names compared without regard to case
CameraMatchesIgnoringCase(light_camera, cal_camera) ==
    ~ (light_camera = None \/ cal_camera = None)
    /\ ~ (Upper(light_camera.s) # Upper(cal_camera.s))

\* lines 91-94: the camera must be present on both sides and equal
CameraMatches(light_camera, cal_camera) ==
    ~ (light_camera = None \/ cal_camera = None)
    /\ ~ (light_camera # cal_camera)

\* the mutated setting check: a value missing on either side is a mismatch
SettingMatchesStrict(light_value, cal_value) ==
    light_value # None /\ cal_value # None /\ light_value = cal_value

\* lines 102-104 and 112-114: two present numbers must be equal
SettingMatches(light_value, cal_value) ==
    ~ (light_value # None /\ cal_value # None /\ FloatNotEqual(light_value, cal_value))

_matches_camera_settings(light_metadata, calibration_metadata, match_gain, match_offset) ==
    LET light_camera == _get_str_value(light_metadata, "camera")
        cal_camera == _get_str_value(calibration_metadata, "camera")
    IN
    /\ CameraMatches(light_camera, cal_camera)
    /\ match_gain =>
          SettingMatches(_get_float_value(light_metadata, "gain"),
                         _get_float_value(calibration_metadata, "gain"))
    /\ match_offset =>
          SettingMatches(_get_float_value(light_metadata, "offset"),
                         _get_float_value(calibration_metadata, "offset"))

----------------------------------------------------------------------------
(* Optional results: Python's None is <<>>, a value v is <<v>> *)

Nothing == <<>>

Some(v) == <<v>>

----------------------------------------------------------------------------
(* find_matching_dark *)

\* line 205: the 0.001 s exactness epsilon, in units of 0.0005
EXACT_EPSILON == 2

\* the mutated exposure filter: the comparison turned round, which keeps the
\* darks that are not longer than the light
ExposureNotLonger(dark_exposure, light_exposure) ==
    ~ (dark_exposure.n > light_exposure.n)

\* lines 195-196: a dark shorter than the light is skipped
ExposureLongEnough(dark_exposure, light_exposure) ==
    ~ FloatLess(dark_exposure, light_exposure)

\* the mutated temperature filter: a dark without a set temperature is
\* skipped when the light has one
TemperatureKnownAndWithin(light_temp, dark_temp, temperature_tolerance) ==
    ~ (/\ light_temp # None
       /\ \/ dark_temp = None
          \/ AbsAbove(FloatDifference(light_temp, dark_temp), temperature_tolerance))

\* the mutated temperature filter: >= for >, which drops a dark exactly at
\* the tolerance
TemperatureBelowTolerance(light_temp, dark_temp, temperature_tolerance) ==
    ~ (/\ light_temp # None
       /\ dark_temp # None
       /\ Abs(light_temp.n - dark_temp.n) >= temperature_tolerance)

\* lines 200-202: skipped when both temperatures are known and too far apart
TemperatureWithinTolerance(light_temp, dark_temp, temperature_tolerance) ==
    ~ (/\ light_temp # None
       /\ dark_temp # None
       /\ AbsAbove(FloatDifference(light_temp, dark_temp), temperature_tolerance))

\* lines 179-202: the loop body's continue conditions, negated
DarkSurvives(light_metadata, cal_metadata, temperature_tolerance, match_gain, match_offset) ==
    LET light_exposure == _get_float_value(light_metadata, "exposureseconds")
        light_temp == _get_float_value(light_metadata, "settemp")
        dark_exposure == _get_float_value(cal_metadata, "exposureseconds")
        dark_temp == _get_float_value(cal_metadata, "settemp")
    IN
    /\ _is_calibration_type(cal_metadata, TYPE_DARK, TYPE_MASTER_DARK)
    /\ _matches_camera_settings(light_metadata, cal_metadata,
                                match_gain, match_offset)
    /\ dark_exposure # None
    /\ ExposureLongEnough(dark_exposure, light_exposure)
    /\ TemperatureWithinTolerance(light_temp, dark_temp, temperature_tolerance)

\* lines 205-213: the record appended for a surviving dark
DarkCandidate(filename, dark_exposure, light_exposure) ==
    [filename |-> filename,
     is_exact |-> AbsBelow(FloatDifference(dark_exposure, light_exposure), EXACT_EPSILON),
     exposure_diff |-> FloatDifference(dark_exposure, light_exposure),
     exposure |-> dark_exposure]

\* lines 175-213: the candidates list after the loop, in pool order
RECURSIVE DarkCandidates(_, _, _, _, _)
DarkCandidates(light_metadata, calibration_data, temperature_tolerance, match_gain, match_offset) ==
    IF calibration_data = <<>> THEN <<>>
    ELSE
      LET n == Len(calibration_data)
          e == calibration_data[n]
          before == DarkCandidates(light_metadata,
                                   SubSeq(calibration_data, 1, n - 1),
                                   temperature_tolerance, match_gain, match_offset)
      IN
      IF DarkSurvives(light_metadata, e.meta, temperature_tolerance,
                      match_gain, match_offset)
      THEN Append(before,
                  DarkCandidate(e.filename,
                      _get_float_value(e.meta, "exposureseconds"),
                      _get_float_value(light_metadata, "exposureseconds")))
      ELSE before

\* the mutated sort key (is_exact, exposure_diff): the "not" is lost
DarkKeyLessNotDropped(a, b, prefer_exact_exposure) ==
    IF prefer_exact_exposure
    THEN \/ (~ a.is_exact /\ b.is_exact)
         \/ (a.is_exact = b.is_exact /\ FloatLess(a.exposure_diff, b.exposure_diff))
    ELSE FloatLess(a.exposure_diff, b.exposure_diff)

\* the mutated sort key: descending (reverse=True)
DarkKeyLessReversed(a, b, prefer_exact_exposure) ==
    IF prefer_exact_exposure
    THEN \/ (~ b.is_exact /\ a.is_exact)
         \/ (a.is_exact = b.is_exact /\ FloatLess(b.exposure_diff, a.exposure_diff))
    ELSE FloatLess(b.exposure_diff, a.exposure_diff)

\* the mutated comparison: <= for <, which makes equal keys a descending run
DarkKeyLessOrEqual(a, b, prefer_exact_exposure) ==
    IF prefer_exact_exposure
    THEN \/ (a.is_exact /\ ~ b.is_exact)
         \/ (a.is_exact = b.is_exact /\ ~ FloatLess(b.exposure_diff, a.exposure_diff))
    ELSE ~ FloatLess(b.exposure_diff, a.exposure_diff)

\* lines 221-224: key(a) < key(b) for the sort key in force; the prefer key
\* is the tuple (not is_exact, exposure_diff), compared lexicographically
\* with False < True
DarkKeyLess(a, b, prefer_exact_exposure) ==
    IF prefer_exact_exposure
    THEN \/ (a.is_exact /\ ~ b.is_exact)
         \/ (a.is_exact = b.is_exact /\ FloatLess(a.exposure_diff, b.exposure_diff))
    ELSE FloatLess(a.exposure_diff, b.exposure_diff)

\* list.sort of a short list, as CPython does it: the run at the head of the
\* list is found (and reversed when it descends strictly), then each later
\* element is put into the sorted part by binary insertion.  With keys that
\* hold NaN the comparisons are not an order, and the result is what these
\* steps make of them.

\* the length of the run at the head: n elements are in it already
RECURSIVE DarkRunLength(_, _, _, _)
DarkRunLength(cands, n, descending, prefer_exact_exposure) ==
    IF n >= Len(cands) THEN n
    ELSE IF DarkKeyLess(cands[n + 1], cands[n], prefer_exact_exposure) = descending
         THEN DarkRunLength(cands, n + 1, descending, prefer_exact_exposure)
         ELSE n

Reversed(s) == [i \in 1..Len(s) |-> s[Len(s) + 1 - i]]

\* the list after the run at its head is found: a descending run is reversed
DarkRunSorted(cands, n, descending) ==
    IF descending
    THEN Reversed(SubSeq(cands, 1, n)) \o SubSeq(cands, n + 1, Len(cands))
    ELSE cands

\* the place of x among sorted[l+1..r]: the number of elements before it
RECURSIVE BinaryPosition(_, _, _, _, _)
BinaryPosition(sorted, x, l, r, prefer_exact_exposure) ==
    IF l >= r THEN l
    ELSE IF DarkKeyLess(x, sorted[l + (r - l) \div 2 + 1], prefer_exact_exposure)
         THEN BinaryPosition(sorted, x, l, l + (r - l) \div 2, prefer_exact_exposure)
         ELSE BinaryPosition(sorted, x, l + (r - l) \div 2 + 1, r, prefer_exact_exposure)

\* x put at position l + 1 of an already sorted list
InsertedAt(sorted, x, l) ==
    SubSeq(sorted, 1, l) \o <<x>> \o SubSeq(sorted, l + 1, Len(sorted))

\* binary insertion: x put after the elements that are not greater
InsertDark(sorted, x, prefer_exact_exposure) ==
    InsertedAt(sorted, x, BinaryPosition(sorted, x, 0, Len(sorted), prefer_exact_exposure))

\* the elements after the first n put one by one into the sorted first n
RECURSIVE BinarySortDark(_, _, _)
BinarySortDark(cands, n, prefer_exact_exposure) ==
    IF n >= Len(cands) THEN cands
    ELSE BinarySortDark(InsertDark(SubSeq(cands, 1, n), cands[n + 1], prefer_exact_exposure)
                           \o SubSeq(cands, n + 2, Len(cands)),
                        n + 1, prefer_exact_exposure)

\* the sort of a list of two or more, given whether its head run descends
\* and how long it is
SortDarkRun(cands, n, descending, prefer_exact_exposure) ==
    BinarySortDark(DarkRunSorted(cands, n, descending), n, prefer_exact_exposure)

\* lines 221-224: list.sort(key=...), ascending and stable
SortDark(cands, prefer_exact_exposure) ==
    IF Len(cands) < 2 THEN cands
    ELSE SortDarkRun(cands,
                     DarkRunLength(cands, 2,
                                   DarkKeyLess(cands[2], cands[1], prefer_exact_exposure),
                                   prefer_exact_exposure),
                     DarkKeyLess(cands[2], cands[1], prefer_exact_exposure),
                     prefer_exact_exposure)

\* lines 169-226: the frame of one call at its return: the candidates list
\* as the call leaves it, and the value returned
DarkCall(light_metadata, calibration_data, temperature_tolerance, prefer_exact_exposure, match_gain, match_offset) ==
    IF _get_float_value(light_metadata, "exposureseconds") = None
    THEN [candidates |-> <<>>, result |-> Nothing]
    ELSE LET cands == DarkCandidates(light_metadata, calibration_data,
                          temperature_tolerance, match_gain, match_offset)
         IN
         IF cands = <<>> THEN [candidates |-> <<>>, result |-> Nothing]
         ELSE LET sorted == SortDark(cands, prefer_exact_exposure) IN
              [candidates |-> sorted, result |-> Some(sorted[1].filename)]

find_matching_dark(light_metadata, calibration_data, temperature_tolerance, prefer_exact_exposure, match_gain, match_offset) ==
    DarkCall(light_metadata, calibration_data, temperature_tolerance,
             prefer_exact_exposure, match_gain, match_offset).result

----------------------------------------------------------------------------
(* find_matching_bias *)

\* the mutated loop: the match is remembered instead of returned at once, so
\* the last matching entry wins
RECURSIVE find_last_matching_bias(_, _, _, _)
find_last_matching_bias(light_metadata, calibration_data, match_gain, match_offset) ==
    IF calibration_data = <<>> THEN Nothing
    ELSE LET n == Len(calibration_data)
             e == calibration_data[n]
         IN
         IF /\ _is_calibration_type(e.meta, TYPE_BIAS, TYPE_MASTER_BIAS)
            /\ _matches_camera_settings(light_metadata, e.meta, match_gain, match_offset)
         THEN Some(e.filename)
         ELSE find_last_matching_bias(light_metadata, SubSeq(calibration_data, 1, n - 1),
                                      match_gain, match_offset)

\* the mutated result: an empty name instead of None when no bias matches
RECURSIVE find_matching_bias_or_empty(_, _, _, _)
find_matching_bias_or_empty(light_metadata, calibration_data, match_gain, match_offset) ==
    IF calibration_data = <<>> THEN Some("")
    ELSE LET e == Head(calibration_data) IN
         IF /\ _is_calibration_type(e.meta, TYPE_BIAS, TYPE_MASTER_BIAS)
            /\ _matches_camera_settings(light_metadata, e.meta, match_gain, match_offset)
         THEN Some(e.filename)
         ELSE find_matching_bias_or_empty(light_metadata, Tail(calibration_data),
                                          match_gain, match_offset)

\* lines 253-267: the first entry, in pool order, that is a bias and matches
\* the camera settings
RECURSIVE find_matching_bias(_, _, _, _)
find_matching_bias(light_metadata, calibration_data, match_gain, match_offset) ==
    IF calibration_data = <<>> THEN Nothing
    ELSE LET e == Head(calibration_data) IN
         IF ~ _is_calibration_type(e.meta, TYPE_BIAS, TYPE_MASTER_BIAS)
         THEN find_matching_bias(light_metadata, Tail(calibration_data),
                                 match_gain, match_offset)
         ELSE IF ~ _matches_camera_settings(light_metadata, e.meta, match_gain, match_offset)
         THEN find_matching_bias(light_metadata, Tail(calibration_data),
                                 match_gain, match_offset)
         ELSE Some(e.filename)

----------------------------------------------------------------------------
(* datetime.strptime, as find_matching_flat uses it *)

\* s[:n]
Slice(s, n) == SubSeq(s, 1, IF n < Len(s) THEN n ELSE Len(s))

FMT_ISO_DATE == <<"%", "Y", "-", "%", "m", "-", "%", "d">>
FMT_COMPACT == <<"%", "Y", "%", "m", "%", "d">>
FMT_ISO_DATETIME ==
    <<"%", "Y", "-", "%", "m", "-", "%", "d", "T", "%", "H", ":", "%", "M", ":", "%", "S">>

\* lines 309 and 348: the formats tried, in order
DATE_FORMATS == <<FMT_ISO_DATE, FMT_COMPACT, FMT_ISO_DATETIME>>



\* lines 311 and 350:
\* len(fmt.replace("%", "").replace("-", "").replace(":", "").replace("T", "")) + 4
SliceLength(fmt) ==
    Cardinality({i \in 1..Len(fmt) : fmt[i] \notin {"%", "-", ":", "T"}}) + 4

\* The regular expression of a directive (_strptime.TimeRE): its
\* alternatives in order, each a sequence of character classes.
DirectiveAlternatives(d) ==
    CASE d = "Y" -> << <<Digits, Digits, Digits, Digits>> >>
      [] d = "m" -> << <<{"1"}, {"0", "1", "2"}>>,
                       <<{"0"}, Digits \ {"0"}>>,
                       <<Digits \ {"0"}>> >>
      [] d = "d" -> << <<{"3"}, {"0", "1"}>>,
                       <<{"1", "2"}, Digits>>,
                       <<{"0"}, Digits \ {"0"}>>,
                       <<Digits \ {"0"}>>,
                       <<{" "}, Digits \ {"0"}>> >>
      [] d = "H" -> << <<{"2"}, {"0", "1", "2", "3"}>>,
                       <<{"0", "1"}, Digits>>,
                       <<Digits>> >>
      [] d = "M" -> << <<{"0", "1", "2", "3", "4", "5"}, Digits>>,
                       <<Digits>> >>
      [] d = "S" -> << <<{"6"}, {"0", "1"}>>,
                       <<{"0", "1", "2", "3", "4", "5"}, Digits>>,
                       <<Digits>> >>

\* a literal character of the format; the expression is compiled with
\* re.IGNORECASE
LiteralClass(c) == IF c = "T" THEN {"T", "t"} ELSE {c}

\* TimeRE.pattern: the format as a sequence of tokens, a directive or a literal
RECURSIVE FormatTokens(_)
FormatTokens(fmt) ==
    IF fmt = <<>> THEN <<>>
    ELSE IF fmt[1] = "%"
         THEN <<[name |-> fmt[2], alts |-> DirectiveAlternatives(fmt[2])]>>
              \o FormatTokens(SubSeq(fmt, 3, Len(fmt)))
         ELSE <<[name |-> "", alts |-> << <<LiteralClass(fmt[1])>> >>]>>
              \o FormatTokens(Tail(fmt))

\* the alternative matches data at position pos
AlternativeMatches(alt, data, pos) ==
    /\ pos + Len(alt) - 1 <= Len(data)
    /\ \A k \in 1..Len(alt) : data[pos + k - 1] \in alt[k]

\* re.match with backtracking: the first way, in the order of the
\* alternatives, to match every token from ti on at position pos; the result
\* is Nothing or the end of the match and the text of each group
RECURSIVE RegexMatch(_, _, _, _, _)
RegexMatch(tokens, ti, ai, data, pos) ==
    IF ti > Len(tokens) THEN Some([end |-> pos - 1, groups |-> <<>>])
    ELSE IF ai > Len(tokens[ti].alts) THEN Nothing
    ELSE LET alt == tokens[ti].alts[ai]
             rest == RegexMatch(tokens, ti + 1, 1, data, pos + Len(alt))
         IN
         IF AlternativeMatches(alt, data, pos) /\ rest # Nothing
         THEN Some([end |-> rest[1].end,
                    groups |-> <<[name |-> tokens[ti].name,
                                  text |-> SubSeq(data, pos, pos + Len(alt) - 1)]>>
                               \o rest[1].groups])
         ELSE RegexMatch(tokens, ti, ai + 1, data, pos)

\* int() of text: the digits' value, blanks before them ignored
RECURSIVE IntOfText(_)
IntOfText(text) ==
    IF text # <<>> /\ text[1] = " " THEN IntOfText(Tail(text)) ELSE DecVal(text)

\* int() of the text of the group of that name, or the default when the
\* format has no such directive
GroupValue(groups, name, default) ==
    LET at == {i \in 1..Len(groups) : groups[i].name = name} IN
    IF at = {} THEN default
    ELSE IntOfText(groups[CHOOSE i \in at : TRUE].text)

IsLeap(year) == year % 4 = 0 /\ (year % 100 # 0 \/ year % 400 = 0)

DaysInMonth(year, month) ==
    IF month = 2 THEN (IF IsLeap(year) THEN 29 ELSE 28)
    ELSE IF month \in {4, 6, 9, 11} THEN 30 ELSE 31

\* the fields of a match, with the defaults of the directives not given
DatetimeFields(groups) ==
    [year |-> GroupValue(groups, "Y", 1900), month |-> GroupValue(groups, "m", 1),
     day |-> GroupValue(groups, "d", 1), hour |-> GroupValue(groups, "H", 0),
     minute |-> GroupValue(groups, "M", 0), second |-> GroupValue(groups, "S", 0)]

\* datetime(...) of the fields: ValueError (Nothing) unless they are a date
\* and a time of day
DatetimeOf(dt) ==
    IF /\ dt.year >= 1
       /\ dt.day <= DaysInMonth(dt.year, dt.month)
       /\ dt.second <= 59
    THEN Some(dt) ELSE Nothing

\* the outcome of a match: ValueError (Nothing) when the text does not
\* match or data remains unconverted
DatetimeOfMatch(data, found) ==
    IF found = Nothing THEN Nothing
    ELSE IF Len(data) # found[1].end THEN Nothing
    ELSE DatetimeOf(DatetimeFields(found[1].groups))

\* datetime.strptime(data, fmt); Nothing stands for the ValueError raised
Strptime(data, fmt) ==
    DatetimeOfMatch(data, RegexMatch(FormatTokens(fmt), 1, 1, data, 1))

\* the first attempt when it parsed, the next attempt otherwise
FirstParsed(parsed, next_attempt) ==
    IF parsed # Nothing THEN parsed ELSE next_attempt

\* lines 309-314 and 348-353: the formats from the k-th on, each tried on its
\* own slice of the text; the first that parses wins
RECURSIVE TryFormats(_, _)
TryFormats(date_str, k) ==
    IF k > Len(DATE_FORMATS) THEN Nothing
    ELSE FirstParsed(Strptime(Slice(date_str, SliceLength(DATE_FORMATS[k])),
                              DATE_FORMATS[k]),
                     TryFormats(date_str, k + 1))

\* the mutated parser: the whole text is tried as a date-time first, which
\* keeps the time of day
ParseDateWithTime(date_str) ==
    FirstParsed(Strptime(date_str, FMT_ISO_DATETIME),
                Strptime(Slice(date_str, 10), FMT_ISO_DATE))

\* lines 307-320 and 345-355: the fallback chain, then the first ten
\* characters as an ISO date; Nothing when every attempt raises ValueError
ParseDate(date_str) ==
    FirstParsed(TryFormats(date_str, 1), Strptime(Slice(date_str, 10), FMT_ISO_DATE))

\* the days of the year before the first day of the month
RECURSIVE DaysBeforeMonth(_, _)
DaysBeforeMonth(year, month) ==
    IF month <= 1 THEN 0
    ELSE DaysBeforeMonth(year, month - 1) + DaysInMonth(year, month - 1)

\* the days from 0001-01-01 to the first day of the year
DaysBeforeYear(year) ==
    (year - 1) * 365 + ((year - 1) \div 4) - ((year - 1) \div 100) + ((year - 1) \div 400)

\* date.toordinal(): 0001-01-01 is day 1
Ordinal(dt) == DaysBeforeYear(dt.year) + DaysBeforeMonth(dt.year, dt.month) + dt.day

\* the time of day in seconds
SecondOfDay(dt) == dt.hour * 3600 + dt.minute * 60 + dt.second

\* line 357: abs((light_date - flat_date).days); timedelta.days is the floor
\* of the difference in days: the difference of the dates plus the floor of
\* the difference of the times of day
DaysBetween(a, b) ==
    Abs((Ordinal(a) - Ordinal(b)) + ((SecondOfDay(a) - SecondOfDay(b)) \div 86400))

----------------------------------------------------------------------------
(* find_matching_flat *)

\* lines 304-320: light_date
LightDate(light_metadata, date_tolerance_days) ==
    IF /\ date_tolerance_days # Nothing
       /\ _get_str_value(light_metadata, "date") # None
    THEN ParseDate(_get_str_value(light_metadata, "date").s)
    ELSE Nothing

\* line 357, and the except clause of line 360 that leaves days_diff None
DaysDiffOf(parsed_light_date, flat_date) ==
    IF flat_date = Nothing THEN Nothing
    ELSE Some(DaysBetween(parsed_light_date[1], flat_date[1]))

\* lines 341-357 and 360-362: days_diff of one candidate, Nothing when the
\* date check is skipped
FlatDaysDiff(parsed_light_date, cal_metadata, date_tolerance_days) ==
    IF /\ date_tolerance_days # Nothing
       /\ parsed_light_date # Nothing
       /\ _get_str_value(cal_metadata, "date") # None
    THEN DaysDiffOf(parsed_light_date, ParseDate(_get_str_value(cal_metadata, "date").s))
    ELSE Nothing

\* lines 358-359: a flat further away than the tolerance is skipped
DateWithinTolerance(days_diff, date_tolerance_days) ==
    ~ (days_diff # Nothing /\ days_diff[1] > date_tolerance_days[1])

\* the mutated filter check: the names compared without regard to case
FilterMatchesIgnoringCase(flat_filter, light_filter) ==
    ~ (flat_filter = None \/ Upper(flat_filter.s) # Upper(light_filter.s))

\* lines 336-338: the filter must be present and equal to the light's
FilterMatches(flat_filter, light_filter) ==
    ~ (flat_filter = None \/ flat_filter # light_filter)

\* lines 326-338: the continue conditions before the date check, negated
FlatPassesBeforeDate(light_metadata, cal_metadata, match_gain, match_offset) ==
    /\ _is_calibration_type(cal_metadata, TYPE_FLAT, TYPE_MASTER_FLAT)
    /\ _matches_camera_settings(light_metadata, cal_metadata, match_gain, match_offset)
    /\ FilterMatches(_get_str_value(cal_metadata, "filter"),
                     _get_str_value(light_metadata, "filter"))

\* line 366: days_diff if days_diff is not None else float("inf")
FlatScore(days_diff) ==
    IF days_diff # Nothing THEN [inf |-> FALSE, days |-> days_diff[1]]
    ELSE [inf |-> TRUE, days |-> 0]

\* lines 364-367: the record appended for a surviving flat
FlatCandidate(filename, days_diff) ==
    [filename |-> filename, days_diff |-> FlatScore(days_diff)]

\* lines 324-367: one round of the loop, days_diff being the candidate's
\* day difference: the candidates list after it
FlatLoopBody(cands, light_metadata, e, days_diff, date_tolerance_days, match_gain, match_offset) ==
    IF /\ FlatPassesBeforeDate(light_metadata, e.meta, match_gain, match_offset)
       /\ DateWithinTolerance(days_diff, date_tolerance_days)
    THEN Append(cands, FlatCandidate(e.filename, days_diff))
    ELSE cands

\* lines 322-367: the candidates list after the loop, in pool order
RECURSIVE FlatCandidates(_, _, _, _, _, _)
FlatCandidates(light_metadata, parsed_light_date, calibration_data, date_tolerance_days, match_gain, match_offset) ==
    IF calibration_data = <<>> THEN <<>>
    ELSE FlatLoopBody(
             FlatCandidates(light_metadata, parsed_light_date,
                            SubSeq(calibration_data, 1, Len(calibration_data) - 1),
                            date_tolerance_days, match_gain, match_offset),
             light_metadata,
             calibration_data[Len(calibration_data)],
             FlatDaysDiff(parsed_light_date, calibration_data[Len(calibration_data)].meta,
                          date_tolerance_days),
             date_tolerance_days, match_gain, match_offset)

\* the mutated comparison: <= for <, which makes the sort put a candidate
\* before the earlier candidates of the same key
FlatKeyLessOrEqual(a, b) ==
    \/ b.days_diff.inf
    \/ (~ a.days_diff.inf /\ a.days_diff.days <= b.days_diff.days)

\* line 373: key(a) < key(b) for the key days_diff, a float that may be inf
FlatKeyLess(a, b) ==
    /\ ~ a.days_diff.inf
    /\ (b.days_diff.inf \/ a.days_diff.days < b.days_diff.days)

\* x put before the first element whose key is greater: after its equals
RECURSIVE InsertFlat(_, _)
InsertFlat(sorted, x) ==
    IF sorted = <<>> THEN <<x>>
    ELSE IF FlatKeyLess(x, Head(sorted))
         THEN <<x>> \o sorted
         ELSE <<Head(sorted)>> \o InsertFlat(Tail(sorted), x)

\* line 373: list.sort(key=...), ascending and stable
RECURSIVE SortFlat(_)
SortFlat(cands) ==
    IF cands = <<>> THEN <<>>
    ELSE InsertFlat(SortFlat(SubSeq(cands, 1, Len(cands) - 1)), cands[Len(cands)])

\* lines 369-375: the frame at the return, given the locals after the loop
FlatFrame(parsed_light_date, cands) ==
    [light_date |-> parsed_light_date,
     candidates |-> SortFlat(cands),
     result |-> IF cands = <<>> THEN Nothing ELSE Some(Head(SortFlat(cands)).filename)]

\* lines 298-375: the frame of one call at its return: light_date, the
\* candidates list as the call leaves it, and the value returned
FlatCall(light_metadata, calibration_data, date_tolerance_days, match_gain, match_offset) ==
    IF _get_str_value(light_metadata, "filter") = None
    THEN [light_date |-> Nothing, candidates |-> <<>>, result |-> Nothing]
    ELSE FlatFrame(LightDate(light_metadata, date_tolerance_days),
                   FlatCandidates(light_metadata,
                                  LightDate(light_metadata, date_tolerance_days),
                                  calibration_data, date_tolerance_days,
                                  match_gain, match_offset))

find_matching_flat(light_metadata, calibration_data, date_tolerance_days, match_gain, match_offset) ==
    FlatCall(light_metadata, calibration_data, date_tolerance_days,
             match_gain, match_offset).result

----------------------------------------------------------------------------
(* find_all_matching_calibrations *)

\* the mutated composition: date_tolerance_days is not handed on, so the
\* flat matcher runs with its default None
find_all_without_date_tolerance(light_metadata, calibration_data, temperature_tolerance, date_tolerance_days, prefer_exact_exposure, match_gain, match_offset) ==
    [dark |-> find_matching_dark(light_metadata, calibration_data, temperature_tolerance,
                                 prefer_exact_exposure, match_gain, match_offset),
     bias |-> find_matching_bias(light_metadata, calibration_data, match_gain, match_offset),
     flat |-> find_matching_flat(light_metadata, calibration_data, Nothing,
                                 match_gain, match_offset)]

\* lines 407-429: the dict of the three matchers' results
find_all_matching_calibrations(light_metadata, calibration_data, temperature_tolerance, date_tolerance_days, prefer_exact_exposure, match_gain, match_offset) ==
    [dark |-> find_matching_dark(light_metadata, calibration_data, temperature_tolerance,
                                 prefer_exact_exposure, match_gain, match_offset),
     bias |-> find_matching_bias(light_metadata, calibration_data, match_gain, match_offset),
     flat |-> find_matching_flat(light_metadata, calibration_data, date_tolerance_days,
                                 match_gain, match_offset)]

----------------------------------------------------------------------------
(* Exceptions *)

\* no exception
NoException == ""

\* an int too large for a float, such as 10**400: a number that float()
\* does not convert
Big == [k |-> "big", n |-> 0, s |-> <<>>]

\* the first exception when there is one, the next otherwise: statements in
\* sequence
FirstRaised(exc, next_exc) == IF exc # NoException THEN exc ELSE next_exc

\* line 47: what float(value) raises for a value that is not None
FloatRaises(value) ==
    IF value.k = "big" THEN "OverflowError"
    ELSE IF value.k = "str" /\ FloatOfStr(value.s) = None THEN "ValueError"
    ELSE NoException

\* lines 43-49: what escapes _get_float_value; the except clause of line 48
\* catches ValueError and TypeError
GetFloatRaises(metadata, key) ==
    IF metadata[key] = None THEN NoException
    ELSE IF FloatRaises(metadata[key]) \in {"ValueError", "TypeError"} THEN NoException
    ELSE FloatRaises(metadata[key])

\* lines 98-99 and 108-109: the two reads of one setting
SettingRaises(light_metadata, calibration_metadata, key) ==
    FirstRaised(GetFloatRaises(light_metadata, key),
                GetFloatRaises(calibration_metadata, key))

\* lines 88-116: what escapes _matches_camera_settings; a setting is read
\* only when the checks before it have passed
MatchesCameraSettingsRaises(light_metadata, calibration_metadata, match_gain, match_offset) ==
    IF ~ CameraMatches(_get_str_value(light_metadata, "camera"),
                       _get_str_value(calibration_metadata, "camera"))
    THEN NoException
    ELSE IF ~ match_gain
    THEN (IF match_offset THEN SettingRaises(light_metadata, calibration_metadata, "offset")
          ELSE NoException)
    ELSE IF SettingRaises(light_metadata, calibration_metadata, "gain") # NoException
    THEN SettingRaises(light_metadata, calibration_metadata, "gain")
    ELSE IF ~ SettingMatches(_get_float_value(light_metadata, "gain"),
                             _get_float_value(calibration_metadata, "gain"))
    THEN NoException
    ELSE IF match_offset THEN SettingRaises(light_metadata, calibration_metadata, "offset")
    ELSE NoException

\* lines 179-199: what escapes one round of the dark matcher's loop
DarkRoundRaises(light_metadata, cal_metadata, match_gain, match_offset) ==
    IF ~ _is_calibration_type(cal_metadata, TYPE_DARK, TYPE_MASTER_DARK) THEN NoException
    ELSE IF MatchesCameraSettingsRaises(light_metadata, cal_metadata,
                                        match_gain, match_offset) # NoException
    THEN MatchesCameraSettingsRaises(light_metadata, cal_metadata, match_gain, match_offset)
    ELSE IF ~ _matches_camera_settings(light_metadata, cal_metadata, match_gain, match_offset)
    THEN NoException
    ELSE IF GetFloatRaises(cal_metadata, "exposureseconds") # NoException
    THEN GetFloatRaises(cal_metadata, "exposureseconds")
    ELSE IF _get_float_value(cal_metadata, "exposureseconds") = None THEN NoException
    ELSE IF ~ ExposureLongEnough(_get_float_value(cal_metadata, "exposureseconds"),
                                 _get_float_value(light_metadata, "exposureseconds"))
    THEN NoException
    ELSE GetFloatRaises(cal_metadata, "settemp")

\* lines 177-213: what escapes the dark matcher's loop, which visits every
\* entry in pool order
RECURSIVE DarkLoopRaises(_, _, _, _)
DarkLoopRaises(light_metadata, calibration_data, match_gain, match_offset) ==
    IF calibration_data = <<>> THEN NoException
    ELSE FirstRaised(DarkRoundRaises(light_metadata, Head(calibration_data).meta,
                                     match_gain, match_offset),
                     DarkLoopRaises(light_metadata, Tail(calibration_data),
                                    match_gain, match_offset))

\* lines 169-226: what escapes find_matching_dark; both values of the light
\* are read before the test of line 172
DarkRaises(light_metadata, calibration_data, match_gain, match_offset) ==
    IF GetFloatRaises(light_metadata, "exposureseconds") # NoException
    THEN GetFloatRaises(light_metadata, "exposureseconds")
    ELSE IF GetFloatRaises(light_metadata, "settemp") # NoException
    THEN GetFloatRaises(light_metadata, "settemp")
    ELSE IF _get_float_value(light_metadata, "exposureseconds") = None THEN NoException
    ELSE DarkLoopRaises(light_metadata, calibration_data, match_gain, match_offset)

\* lines 253-267: what escapes find_matching_bias, whose loop ends at the
\* first match
RECURSIVE BiasRaises(_, _, _, _)
BiasRaises(light_metadata, calibration_data, match_gain, match_offset) ==
    IF calibration_data = <<>> THEN NoException
    ELSE IF ~ _is_calibration_type(Head(calibration_data).meta, TYPE_BIAS, TYPE_MASTER_BIAS)
    THEN BiasRaises(light_metadata, Tail(calibration_data), match_gain, match_offset)
    ELSE IF MatchesCameraSettingsRaises(light_metadata, Head(calibration_data).meta,
                                        match_gain, match_offset) # NoException
    THEN MatchesCameraSettingsRaises(light_metadata, Head(calibration_data).meta,
                                     match_gain, match_offset)
    ELSE IF _matches_camera_settings(light_metadata, Head(calibration_data).meta,
                                     match_gain, match_offset)
    THEN NoException
    ELSE BiasRaises(light_metadata, Tail(calibration_data), match_gain, match_offset)

\* lines 326-362: what escapes one round of the flat matcher's loop; the
\* ValueError of strptime is caught at lines 313, 352 and 360
FlatRoundRaises(light_metadata, cal_metadata, match_gain, match_offset) ==
    IF ~ _is_calibration_type(cal_metadata, TYPE_FLAT, TYPE_MASTER_FLAT) THEN NoException
    ELSE MatchesCameraSettingsRaises(light_metadata, cal_metadata, match_gain, match_offset)

RECURSIVE FlatLoopRaises(_, _, _, _)
FlatLoopRaises(light_metadata, calibration_data, match_gain, match_offset) ==
    IF calibration_data = <<>> THEN NoException
    ELSE FirstRaised(FlatRoundRaises(light_metadata, Head(calibration_data).meta,
                                     match_gain, match_offset),
                     FlatLoopRaises(light_metadata, Tail(calibration_data),
                                    match_gain, match_offset))

\* lines 298-375: what escapes find_matching_flat; the ValueError of the
\* light's strptime is caught at lines 313 and 319
FlatRaises(light_metadata, calibration_data, match_gain, match_offset) ==
    IF _get_str_value(light_metadata, "filter") = None THEN NoException
    ELSE FlatLoopRaises(light_metadata, calibration_data, match_gain, match_offset)

\* lines 407-429: what escapes find_all_matching_calibrations, which calls
\* the dark, the bias and the flat matcher in this order
AllRaises(light_metadata, calibration_data, match_gain, match_offset) ==
    FirstRaised(DarkRaises(light_metadata, calibration_data, match_gain, match_offset),
                FirstRaised(BiasRaises(light_metadata, calibration_data,
                                       match_gain, match_offset),
                            FlatRaises(light_metadata, calibration_data,
                                       match_gain, match_offset)))

----------------------------------------------------------------------------
(* logging_config.py: setup_logging and get_logger *)

\* the levels of Python's logging module
NOTSET == 0
DEBUG == 10
INFO == 20
WARNING == 30

LOG_FORMAT == "%(asctime)s - %(name)s - %(levelname)s - %(message)s"
DATE_FORMAT == "%Y-%m-%d %H:%M:%S"

\* the default of setup_logging's name and get_logger's logger_name
DEFAULT_NAME == "ap_common"

\* what logging.getLogger(name) creates for a name it has not seen
NewLogger == [level |-> NOTSET, handlers |-> <<>>]

\* the mutated choice of the level: quiet is tested before debug
LevelQuietFirst(debug, quiet) ==
    IF quiet THEN WARNING ELSE IF debug THEN DEBUG ELSE INFO

\* lines 66-71: the level chosen from the flags
Level(debug, quiet) ==
    IF debug THEN DEBUG ELSE IF quiet THEN WARNING ELSE INFO

\* lines 75-80: the console handler with its level and its formatter
ConsoleHandler(level, log_format, date_format) ==
    [stream |-> "sys.stdout", level |-> level,
     formatter |-> [fmt |-> log_format, datefmt |-> date_format]]

\* the mutated line 63: the handlers are kept
HandlersKept(logger) == logger

\* line 63: logger.handlers.clear()
HandlersCleared(logger) == [logger EXCEPT !.handlers = <<>>]

\* line 72: logger.setLevel(level)
LevelSet(logger, level) == [logger EXCEPT !.level = level]

\* line 83: logger.addHandler(console_handler)
HandlerAdded(logger, handler) == [logger EXCEPT !.handlers = Append(@, handler)]

\* lines 60-85: the named logger after setup_logging
ConfiguredLogger(logger, level, log_format, date_format) ==
    HandlerAdded(LevelSet(HandlersCleared(logger), level),
                 ConsoleHandler(level, log_format, date_format))

\* lines 60-85: the loggers after setup_logging; the call returns the logger
\* of this name
setup_logging(all_loggers, name, debug, quiet, log_format, date_format) ==
    [all_loggers EXCEPT ![name] =
        ConfiguredLogger(@, Level(debug, quiet), log_format, date_format)]

\* the logger names of the calls
LoggerNames == {DEFAULT_NAME, "my_tool"}

\* the log_format and date_format arguments: the defaults and a custom one
LogFormats == {LOG_FORMAT, "%(message)s"}
DateFormats == {DATE_FORMAT, "%H:%M"}

\* the name argument of get_logger: None or a name
GetLoggerNames == {Nothing} \cup {Some(name) : name \in LoggerNames}

\* the frame of a call of logging_config
LoggingCall(fn, name, debug, quiet, log_format, date_format) ==
    [fn |-> fn, name |-> name, debug |-> debug, quiet |-> quiet,
     log_format |-> log_format, date_format |-> date_format]

NoLoggingCall == LoggingCall("", Nothing, FALSE, FALSE, "", "")

\* the state at import of logging_config: no logger configured, _logger None
NoLogging ==
    /\ loggers = [name \in LoggerNames |-> NewLogger]
    /\ _logger = Nothing
    /\ logging_call = NoLoggingCall
    /\ returned_logger = Nothing

\* a call of setup_logging
SetupLogging ==
    \E name \in LoggerNames, debug \in BOOLEAN, quiet \in BOOLEAN,
       log_format \in LogFormats, date_format \in DateFormats :
        /\ logging_call' = LoggingCall("setup_logging", Some(name), debug, quiet,
                                       log_format, date_format)
        /\ loggers' = setup_logging(loggers, name, debug, quiet, log_format, date_format)
        /\ returned_logger' = Some(name)
        /\ UNCHANGED <<_logger, matcher_vars, progress_vars, thread_vars>>

\* lines 102-111: a call of get_logger; without a name it returns the
\* default logger, which it sets up with the defaults if _logger is None
GetLogger ==
    \E name \in GetLoggerNames :
        /\ logging_call' = LoggingCall("get_logger", name, FALSE, FALSE, "", "")
        /\ IF name = Nothing
           THEN IF _logger = Nothing
                THEN /\ loggers' = setup_logging(loggers, DEFAULT_NAME, FALSE, FALSE,
                                                 LOG_FORMAT, DATE_FORMAT)
                     /\ _logger' = Some(DEFAULT_NAME)
                     /\ returned_logger' = Some(DEFAULT_NAME)
                ELSE /\ returned_logger' = _logger
                     /\ UNCHANGED <<loggers, _logger>>
           ELSE /\ returned_logger' = name
                /\ UNCHANGED <<loggers, _logger>>
        /\ UNCHANGED <<matcher_vars, progress_vars, thread_vars>>

----------------------------------------------------------------------------
(* progress.py: progress_iter and ProgressTracker *)

\* the most progress bars a behaviour creates
MaxBars == 2

\* the largest counter of a bar
MaxCount == 1

\* the default of desc
DEFAULT_DESC == "Processing"

\* lines 114-118, 162-167, 187-192 and 62: the bar tqdm(...) creates
NewBar(owner, desc) ==
    [owner |-> owner, closed |-> FALSE, n |-> 0, postfix |-> "", desc |-> desc]

\* the bars after tqdm(...) created one more
BarCreated(all_bars, owner, desc) == Append(all_bars, NewBar(owner, desc))

\* lines 156 and 176: pbar.close(); closing a closed bar changes nothing
BarClosed(all_bars, b) == [all_bars EXCEPT ![b].closed = TRUE]

\* line 131: pbar.update(n), which a closed bar ignores
BarUpdated(all_bars, b, n) ==
    IF all_bars[b].closed THEN all_bars ELSE [all_bars EXCEPT ![b].n = @ + n]

\* lines 130 and 141: pbar.set_postfix_str(status)
BarPostfixSet(all_bars, b, status) == [all_bars EXCEPT ![b].postfix = status]

\* line 151: pbar.set_description(desc)
BarDescriptionSet(all_bars, b, desc) == [all_bars EXCEPT ![b].desc = desc]

\* iter(iterable) of a list: the items and how many of them were taken
ListIterator(items) == [over |-> "list", bar |-> 0, items |-> items, pos |-> 0]

\* iter(pbar) of a bar that wraps a list
TqdmIterator(b, items) == [over |-> "tqdm", bar |-> b, items |-> items, pos |-> 0]

\* line 183: the tracker itself, whose __next__ reads self._iterator
SelfIterator == [over |-> "self", bar |-> 0, items |-> <<>>, pos |-> 0]

\* the mutated next(): the item after the next one is yielded
IteratorItemSkipping(iterator) ==
    IF iterator.pos + 1 < Len(iterator.items)
    THEN Some(iterator.items[iterator.pos + 2])
    ELSE Nothing

\* next(iterator): the item it yields, or nothing when it raises
\* StopIteration
IteratorItem(iterator) ==
    IF iterator.pos < Len(iterator.items)
    THEN Some(iterator.items[iterator.pos + 1])
    ELSE Nothing

\* the iterator after next(iterator)
IteratorAdvanced(iterator) ==
    IF iterator.pos < Len(iterator.items)
    THEN [iterator EXCEPT !.pos = @ + 1]
    ELSE iterator

\* the bars after next(iterator): the iteration of a bar closes the bar when
\* its iterable is exhausted
BarsAfterNext(all_bars, iterator) ==
    IF iterator.over = "tqdm" /\ iterator.pos >= Len(iterator.items)
    THEN BarClosed(all_bars, iterator.bar)
    ELSE all_bars

\* lines 95-109: the tracker after __init__
ProgressTracker(iterable, enabled) ==
    [created |-> TRUE, iterable |-> iterable, desc |-> DEFAULT_DESC, enabled |-> enabled,
     _pbar |-> Nothing, _iterator |-> Nothing]

\* no tracker has been created
NoTracker == [ProgressTracker(Nothing, FALSE) EXCEPT !.created = FALSE]

\* self.iterable if self.iterable else []: the items of the tracker's
\* iterable, none when it is None or empty
ItemsOf(iterable) == IF iterable = Nothing THEN <<>> ELSE iterable[1]

\* the caller's for loop: the iterator iter() gave it, the items of the
\* iterable that was wrapped, the items it got so far, and whether it ended
Loop(iterator, source) ==
    [iterator |-> Some(iterator), source |-> source, yielded |-> <<>>, stopped |-> FALSE]

\* no loop has started
NoLoop == [iterator |-> Nothing, source |-> <<>>, yielded |-> <<>>, stopped |-> FALSE]

\* the state at import of progress: no tracker, no bar, no loop
NoProgress ==
    /\ tracker = NoTracker
    /\ bars = <<>>
    /\ loop = NoLoop
    /\ progress_raised = NoException

\* the iterable arguments: None, the empty list, and lists of one and of
\* three items, one of them twice
ITEMS == {<<>>, <<"a">>, <<"a", "b", "a">>}
Iterables == {Nothing} \cup {Some(items) : items \in ITEMS}

\* the status and desc arguments
Statuses == {"item"}
Descriptions == {"Scanning"}

\* the variables the calls of progress leave alone
other_vars == <<matcher_vars, logging_vars, thread_vars>>

\* the tracker's current bar, or 0 when self._pbar is None
CurrentBar == IF tracker._pbar = Nothing THEN 0 ELSE tracker._pbar[1]

\* lines 95-109: ProgressTracker(iterable, enabled=enabled)
ProgressTrackerInit ==
    \E iterable \in Iterables, enabled \in BOOLEAN :
        /\ ~ tracker.created
        /\ tracker' = ProgressTracker(iterable, enabled)
        /\ progress_raised' = NoException
        /\ UNCHANGED <<bars, loop, other_vars>>

\* the mutated start(): the bar is created whether or not the tracker is
\* enabled
StartAlways ==
    /\ tracker.created
    /\ progress_raised' = NoException
    /\ Len(bars) < MaxBars
    /\ bars' = BarCreated(bars, "tracker", tracker.desc)
    /\ tracker' = [tracker EXCEPT !._pbar = Some(Len(bars) + 1)]
    /\ UNCHANGED <<loop, other_vars>>

\* lines 111-118: tracker.start()
Start ==
    /\ tracker.created
    /\ progress_raised' = NoException
    /\ IF tracker.enabled
       THEN /\ Len(bars) < MaxBars
            /\ bars' = BarCreated(bars, "tracker", tracker.desc)
            /\ tracker' = [tracker EXCEPT !._pbar = Some(Len(bars) + 1)]
       ELSE UNCHANGED <<bars, tracker>>
    /\ UNCHANGED <<loop, other_vars>>

\* lines 120-131: tracker.update() and tracker.update(status=status)
Update ==
    \E status \in {Nothing} \cup {Some(s) : s \in Statuses} :
        /\ tracker.created
        /\ progress_raised' = NoException
        /\ IF tracker._pbar # Nothing
           THEN /\ bars[CurrentBar].n < MaxCount
                /\ bars' = BarUpdated(IF status # Nothing
                                      THEN BarPostfixSet(bars, CurrentBar, status[1])
                                      ELSE bars,
                                      CurrentBar, 1)
           ELSE UNCHANGED bars
        /\ UNCHANGED <<tracker, loop, other_vars>>

\* lines 133-141: tracker.set_status(status)
SetStatus ==
    \E status \in Statuses :
        /\ tracker.created
        /\ progress_raised' = NoException
        /\ bars' = IF tracker._pbar # Nothing
                   THEN BarPostfixSet(bars, CurrentBar, status)
                   ELSE bars
        /\ UNCHANGED <<tracker, loop, other_vars>>

\* lines 143-151: tracker.set_description(desc)
SetDescription ==
    \E desc \in Descriptions :
        /\ tracker.created
        /\ progress_raised' = NoException
        /\ bars' = IF tracker._pbar # Nothing
                   THEN BarDescriptionSet(bars, CurrentBar, desc)
                   ELSE bars
        /\ UNCHANGED <<tracker, loop, other_vars>>

\* lines 153-157: tracker.finish()
Finish ==
    /\ tracker.created
    /\ progress_raised' = NoException
    /\ IF tracker._pbar # Nothing
       THEN /\ bars' = BarClosed(bars, CurrentBar)
            /\ tracker' = [tracker EXCEPT !._pbar = Nothing]
       ELSE UNCHANGED <<bars, tracker>>
    /\ UNCHANGED <<loop, other_vars>>

\* lines 159-171: tracker.__enter__(); the with statement is entered before
\* the loop over the tracker starts
Enter ==
    /\ tracker.created
    /\ loop = NoLoop
    /\ progress_raised' = NoException
    /\ IF tracker.enabled /\ tracker.iterable # Nothing
       THEN /\ Len(bars) < MaxBars
            /\ bars' = BarCreated(bars, "tracker", tracker.desc)
            /\ tracker' = [tracker EXCEPT
                              !._pbar = Some(Len(bars) + 1),
                              !._iterator = Some(TqdmIterator(Len(bars) + 1,
                                                              tracker.iterable[1]))]
       ELSE IF tracker.iterable # Nothing
       THEN /\ tracker' = [tracker EXCEPT
                              !._iterator = Some(ListIterator(tracker.iterable[1]))]
            /\ UNCHANGED bars
       ELSE UNCHANGED <<bars, tracker>>
    /\ UNCHANGED <<loop, other_vars>>

\* lines 173-178: tracker.__exit__(None, None, None)
Exit ==
    /\ tracker.created
    /\ progress_raised' = NoException
    /\ IF tracker._pbar # Nothing
       THEN /\ bars' = BarClosed(bars, CurrentBar)
            /\ tracker' = [tracker EXCEPT !._pbar = Nothing]
       ELSE UNCHANGED <<bars, tracker>>
    /\ UNCHANGED <<loop, other_vars>>

\* lines 180-193: tracker.__iter__(), called by the caller's for statement
Iter ==
    /\ tracker.created
    /\ loop = NoLoop
    /\ progress_raised' = NoException
    /\ IF tracker._iterator # Nothing
       THEN /\ loop' = Loop(SelfIterator, ItemsOf(tracker.iterable))
            /\ UNCHANGED bars
       ELSE IF ~ tracker.enabled
       THEN /\ loop' = Loop(ListIterator(ItemsOf(tracker.iterable)),
                            ItemsOf(tracker.iterable))
            /\ UNCHANGED bars
       ELSE /\ Len(bars) < MaxBars
            /\ bars' = BarCreated(bars, "tracker", tracker.desc)
            /\ loop' = Loop(TqdmIterator(Len(bars) + 1, ItemsOf(tracker.iterable)),
                            ItemsOf(tracker.iterable))
    /\ UNCHANGED <<tracker, other_vars>>

\* lines 32-62: progress_iter(items, enabled=enabled) and the iter() of the
\* caller's for statement on what it returns
ProgressIter ==
    \E items \in ITEMS, enabled \in BOOLEAN :
        /\ loop = NoLoop
        /\ progress_raised' = NoException
        /\ IF ~ enabled
           THEN /\ loop' = Loop(ListIterator(items), items)
                /\ UNCHANGED bars
           ELSE /\ Len(bars) < MaxBars
                /\ bars' = BarCreated(bars, "progress_iter", DEFAULT_DESC)
                /\ loop' = Loop(TqdmIterator(Len(bars) + 1, items), items)
        /\ UNCHANGED <<tracker, other_vars>>

\* the loop got an item, or StopIteration ended it
LoopAfterNext(item) ==
    IF item = Nothing
    THEN [loop EXCEPT !.stopped = TRUE]
    ELSE [loop EXCEPT !.yielded = Append(@, item[1])]

\* next() of the caller's for statement on its own iterator
NextOfIterator ==
    /\ loop.iterator # Nothing
    /\ loop.iterator # Some(SelfIterator)
    /\ ~ loop.stopped
    /\ \E iterator \in {loop.iterator[1]} :
          /\ progress_raised' = IF IteratorItem(iterator) = Nothing
                                THEN "StopIteration" ELSE NoException
          /\ loop' = [LoopAfterNext(IteratorItem(iterator)) EXCEPT
                         !.iterator = Some(IteratorAdvanced(iterator))]
          /\ bars' = BarsAfterNext(bars, iterator)
    /\ UNCHANGED <<tracker, other_vars>>

\* lines 195-199: tracker.__next__(), called by the caller's for statement
\* when __iter__ returned the tracker
TrackerNext ==
    /\ loop.iterator = Some(SelfIterator)
    /\ ~ loop.stopped
    /\ IF tracker._iterator = Nothing
       THEN /\ progress_raised' = "StopIteration"
            /\ loop' = LoopAfterNext(Nothing)
            /\ UNCHANGED <<tracker, bars>>
       ELSE \E iterator \in {tracker._iterator[1]} :
               /\ progress_raised' = IF IteratorItem(iterator) = Nothing
                                     THEN "StopIteration" ELSE NoException
               /\ loop' = LoopAfterNext(IteratorItem(iterator))
               /\ tracker' = [tracker EXCEPT !._iterator = Some(IteratorAdvanced(iterator))]
               /\ bars' = BarsAfterNext(bars, iterator)
    /\ UNCHANGED other_vars

\* bar b is referred to by the tracker or by an iterator
Referenced(b) ==
    \/ tracker._pbar = Some(b)
    \/ tracker._iterator # Nothing /\ tracker._iterator[1].bar = b
    \/ loop.iterator # Nothing /\ loop.iterator[1].bar = b

\* the interpreter collects a bar nothing refers to: the bar's finalizer
\* closes it
CollectBar ==
    \E b \in 1..Len(bars) :
        /\ ~ Referenced(b)
        /\ ~ bars[b].closed
        /\ bars' = BarClosed(bars, b)
        /\ UNCHANGED <<tracker, loop, progress_raised, other_vars>>

----------------------------------------------------------------------------
(* Inputs of the calls *)

\* the longest calibration pool the model enumerates
MaxPool == 2

\* the dict keys of the pool, in insertion order
FILENAMES == <<"cal_1.fits", "cal_2.fits", "cal_3.fits", "cal_4.fits">>

Meta(type, camera, gain, offset, exposureseconds, settemp, filter, date) ==
    [type |-> type, camera |-> camera, gain |-> gain, offset |-> offset,
     exposureseconds |-> exposureseconds, settemp |-> settemp,
     filter |-> filter, date |-> date]

\* every pool of at most MaxPool entries whose metadata are drawn from metas
PoolsOf(metas) ==
    UNION {{[i \in 1..n |-> [filename |-> FILENAMES[i], meta |-> f[i]]] :
               f \in [1..n -> metas]} : n \in 0..MaxPool}

CAMERA_A == Str(<<"A", "S", "I", "2", "9", "4">>)
CAMERA_A_LOWER == Str(<<"a", "s", "i", "2", "9", "4">>)
CAMERA_B == Str(<<"Q", "H", "Y", "8">>)

FILTER_HA == Str(<<"H", "a">>)
FILTER_HA_UPPER == Str(<<"H", "A">>)
FILTER_OIII == Str(<<"O", "I", "I", "I">>)

\* a light frame for the dark matcher: camera ASI294, gain 100, 90 s
LightForDark(exposureseconds, settemp) ==
    Meta(Str(<<"L", "I", "G", "H", "T">>), CAMERA_A, Num(Units(100)), None,
         exposureseconds, settemp, None, None)

LightsDark ==
    {LightForDark(Num(Units(90)), None),
     LightForDark(Num(Units(90)), Num(Units(-10))),
     LightForDark(Str(<<"9", "0">>), Str(<<"-", "1", "0">>))}

\* a frame of the light's camera and gain for the dark matcher
DarkMeta(type, exposureseconds, settemp) ==
    Meta(Str(type), CAMERA_A, Num(Units(100)), None, exposureseconds, settemp, None, None)

\* darks of 60 s, 90 s, 90.0005 s, 90.001 s and 120 s, without a set
\* temperature, at -15 and at -15.0005 degrees; a master dark written in
\* lower case with text numbers; a flat; darks without a usable exposure or
\* temperature
MetasDark ==
    {DarkMeta(TYPE_DARK, Num(Units(60)), None),
     DarkMeta(TYPE_DARK, Num(Units(90)), None),
     DarkMeta(TYPE_DARK, Num(Units(90) + 1), Num(Units(-15))),
     DarkMeta(TYPE_DARK, Num(Units(90) + 2), None),
     DarkMeta(TYPE_DARK, Num(Units(120)), Num(Units(-15))),
     DarkMeta(TYPE_DARK, Num(Units(120)), Num(Units(-15) - 1)),
     DarkMeta(<<"m", "a", "s", "t", "e", "r", " ", "d", "a", "r", "k">>,
              Str(<<"1", "2", "0">>), Str(<<"-", "1", "0">>)),
     DarkMeta(TYPE_FLAT, Num(Units(90)), None),
     DarkMeta(TYPE_DARK, Str(<<"n", "/", "a">>), None),
     DarkMeta(TYPE_DARK, Num(Units(90)), Str(<<"c", "o", "l", "d">>))}

\* a light frame for the bias matcher: camera ASI294
LightForBias(gain, offset) ==
    Meta(Str(<<"L", "I", "G", "H", "T">>), CAMERA_A, gain, offset, None, None, None, None)

LightsBias ==
    {LightForBias(Num(Units(100)), Num(Units(10))),
     LightForBias(None, Num(Units(10)))}

BiasMeta(type, camera, gain, offset) ==
    Meta(type, camera, gain, offset, None, None, None, None)

\* biases of the light's camera and settings, in upper and in lower case; a
\* bias of another gain, of another offset, of another camera; a dark; a
\* frame without a type
MetasBias ==
    {BiasMeta(Str(TYPE_BIAS), CAMERA_A, Num(Units(100)), Num(Units(10))),
     BiasMeta(Str(<<"m", "a", "s", "t", "e", "r", " ", "b", "i", "a", "s">>),
              CAMERA_A, Num(Units(100)), None),
     BiasMeta(Str(TYPE_BIAS), CAMERA_A, Num(Units(200)), Num(Units(10))),
     BiasMeta(Str(TYPE_BIAS), CAMERA_A, Num(Units(100)), Num(Units(20))),
     BiasMeta(Str(TYPE_BIAS), CAMERA_B, Num(Units(100)), Num(Units(10))),
     BiasMeta(Str(TYPE_DARK), CAMERA_A, Num(Units(100)), Num(Units(10))),
     BiasMeta(None, CAMERA_A, Num(Units(100)), Num(Units(10)))}

\* a light frame that every matcher can serve: 90 s, filter Ha
LightWithCamera(camera) ==
    Meta(Str(<<"L", "I", "G", "H", "T">>), camera, Num(Units(100)), None,
         Num(Units(90)), None, FILTER_HA, None)

LightsCamera ==
    {LightWithCamera(CAMERA_A), LightWithCamera(CAMERA_A_LOWER), LightWithCamera(None)}

\* a dark, a bias and a flat of each camera, and of no camera
MetasCamera ==
    {Meta(Str(type), camera, Num(Units(100)), None, Num(Units(90)), None, FILTER_HA, None) :
        type \in {TYPE_DARK, TYPE_BIAS, TYPE_FLAT},
        camera \in {CAMERA_A, CAMERA_A_LOWER, None}}

\* lights and candidates for _matches_camera_settings: numbers, numbers
\* written as text, text that is no number, and missing values
LightsSettings ==
    {Meta(None, CAMERA_A, gain, offset, None, None, None, None) :
        gain \in {Num(Units(100)), Str(<<"1", "0", "0">>), Str(<<"h", "i", "g", "h">>), None},
        offset \in {Num(Units(10)), None}}

MetasSettings ==
    {Meta(None, camera, gain, offset, None, None, None, None) :
        camera \in {CAMERA_A, CAMERA_B},
        gain \in {Num(Units(100)), Num(Units(200)), Str(<<"2", "0", "0">>), None},
        offset \in {Num(Units(10)), Num(Units(20)), None}}

\* the character of a decimal digit
DigitChar(n) == <<"0", "1", "2", "3", "4", "5", "6", "7", "8", "9">>[n + 1]

Pad2(n) == <<DigitChar(n \div 10), DigitChar(n % 10)>>

Pad4(n) == Pad2(n \div 100) \o Pad2(n % 100)

\* the three ways of writing a date that the matcher names: YYYY-MM-DD,
\* YYYYMMDD and YYYY-MM-DDTHH:MM:SS
IsoDate(d) == Pad4(d.year) \o <<"-">> \o Pad2(d.month) \o <<"-">> \o Pad2(d.day)

CompactDate(d) == Pad4(d.year) \o Pad2(d.month) \o Pad2(d.day)

IsoDateTime(d, tm) ==
    IsoDate(d) \o <<"T">> \o Pad2(tm.hour) \o <<":">> \o Pad2(tm.minute)
               \o <<":">> \o Pad2(tm.second)

Date(year, month, day) == [year |-> year, month |-> month, day |-> day]

Time(hour, minute, second) == [hour |-> hour, minute |-> minute, second |-> second]

\* the calendar dates and times of day the inputs are written from
TestDates == {Date(2024, 1, 15), Date(2024, 1, 10), Date(2024, 1, 9)}

TestTimes == {Time(8, 0, 0), Time(22, 30, 0)}

\* a light frame for the flat matcher: camera ASI294, gain 100, filter Ha
LightForFlat(date) ==
    Meta(Str(<<"L", "I", "G", "H", "T">>), CAMERA_A, Num(Units(100)), None,
         None, None, FILTER_HA, date)

\* lights taken on 2024-01-15, the date written in each form; a light
\* without a date and one whose date is no date
LightsFlat ==
    {LightForFlat(None),
     LightForFlat(Str(IsoDate(Date(2024, 1, 15)))),
     LightForFlat(Str(CompactDate(Date(2024, 1, 15)))),
     LightForFlat(Str(IsoDateTime(Date(2024, 1, 15), Time(22, 30, 0)))),
     LightForFlat(Str(<<"n", "/", "a">>))}

FlatMeta(type, filter, date) ==
    Meta(Str(type), CAMERA_A, Num(Units(100)), None, None, None, filter, date)

\* flats of the light's filter: without a date, of the same day, 5 and 6
\* days older, the date written in each form or no date at all; a flat of
\* another filter, of the filter in another case; a dark
MetasFlat ==
    {FlatMeta(TYPE_FLAT, FILTER_HA, None),
     FlatMeta(TYPE_FLAT, FILTER_HA, Str(IsoDate(Date(2024, 1, 15)))),
     FlatMeta(TYPE_FLAT, FILTER_HA, Str(IsoDate(Date(2024, 1, 10)))),
     FlatMeta(TYPE_FLAT, FILTER_HA, Str(IsoDate(Date(2024, 1, 9)))),
     FlatMeta(TYPE_FLAT, FILTER_HA, Str(CompactDate(Date(2024, 1, 15)))),
     FlatMeta(TYPE_FLAT, FILTER_HA, Str(CompactDate(Date(2024, 1, 10)))),
     FlatMeta(TYPE_FLAT, FILTER_HA, Str(CompactDate(Date(2024, 1, 9)))),
     FlatMeta(<<"m", "a", "s", "t", "e", "r", " ", "f", "l", "a", "t">>, FILTER_HA,
              Str(IsoDateTime(Date(2024, 1, 10), Time(8, 0, 0)))),
     FlatMeta(TYPE_FLAT, FILTER_HA, Str(<<"n", "/", "a">>)),
     FlatMeta(TYPE_FLAT, FILTER_OIII, Str(IsoDate(Date(2024, 1, 15)))),
     FlatMeta(TYPE_FLAT, FILTER_HA_UPPER, Str(IsoDate(Date(2024, 1, 15)))),
     FlatMeta(TYPE_DARK, FILTER_HA, Str(IsoDate(Date(2024, 1, 15))))}

\* a light frame for the filter check of the flat matcher
LightWithFilter(filter) ==
    Meta(Str(<<"L", "I", "G", "H", "T">>), CAMERA_A, Num(Units(100)), None,
         None, None, filter, None)

LightsFilter == {LightWithFilter(FILTER_HA), LightWithFilter(None)}

\* flats of the filters Ha, HA and OIII and without a filter; a master flat
\* and a dark of the filter Ha
MetasFilter ==
    {FlatMeta(TYPE_FLAT, filter, None) : filter \in {FILTER_HA, FILTER_HA_UPPER, FILTER_OIII, None}}
      \cup {FlatMeta(TYPE_MASTER_FLAT, FILTER_HA, None), FlatMeta(TYPE_DARK, FILTER_HA, None)}

\* texts that float() does not convert
NonNumericTexts == {<<"n", "/", "a">>, <<>>, <<"9", "0", "s">>}

\* lights whose exposureseconds is missing (or null: dict.get() gives None
\* for both) or is text that is no number
LightsWithoutExposure ==
    {LightForDark(None, None)} \cup {LightForDark(Str(t), None) : t \in NonNumericTexts}

\* a frame that every matcher accepts but for its type
TypedMeta(type) ==
    Meta(type, CAMERA_A, Num(Units(100)), None, Num(Units(90)), None, FILTER_HA, None)

\* frames of each kind, raw and master, in upper, lower and mixed case;
\* frames whose type contains a tag without being one; a frame without type
MetasTypes ==
    {TypedMeta(Str(TYPE_DARK)),
     TypedMeta(Str(<<"m", "a", "s", "t", "e", "r", " ", "d", "a", "r", "k">>)),
     TypedMeta(Str(TYPE_BIAS)),
     TypedMeta(Str(<<"M", "a", "s", "t", "e", "r", " ", "B", "i", "a", "s">>)),
     TypedMeta(Str(TYPE_FLAT)),
     TypedMeta(Str(TYPE_MASTER_FLAT)),
     TypedMeta(Str(<<"D", "A", "R", "K", "S">>)),
     TypedMeta(Str(<<"D", "A", "R", "K", " ", "F", "L", "A", "T">>)),
     TypedMeta(Str(<<"B", "I", "A", "S", " ">>)),
     TypedMeta(None)}

\* a light frame that every matcher can serve and every parameter bears on:
\* gain 100, offset 10, 90 s, -10 degrees, filter Ha, taken on 2024-01-15
LightForAll ==
    Meta(Str(<<"L", "I", "G", "H", "T">>), CAMERA_A, Num(Units(100)), Num(Units(10)),
         Num(Units(90)), Num(Units(-10)), FILTER_HA, Str(IsoDate(Date(2024, 1, 15))))

\* a frame of the light's camera and filter
MetaForAll(type, gain, offset, exposureseconds, settemp, date) ==
    Meta(Str(type), CAMERA_A, gain, offset, exposureseconds, settemp, FILTER_HA, date)

\* darks of 90 s at -10 and at -15 degrees, of 120 s, and of gain 200; biases
\* of offset 10 and 20; flats of the light's day and 5 days older
MetasAll ==
    {MetaForAll(TYPE_DARK, Num(Units(100)), Num(Units(10)), Num(Units(90)), Num(Units(-10)), None),
     MetaForAll(TYPE_DARK, Num(Units(100)), Num(Units(10)), Num(Units(90)), Num(Units(-15)), None),
     MetaForAll(TYPE_DARK, Num(Units(100)), Num(Units(10)), Num(Units(120)), Num(Units(-10)), None),
     MetaForAll(TYPE_DARK, Num(Units(200)), Num(Units(10)), Num(Units(90)), Num(Units(-10)), None),
     MetaForAll(TYPE_BIAS, Num(Units(100)), Num(Units(10)), None, None, None),
     MetaForAll(TYPE_BIAS, Num(Units(100)), Num(Units(20)), None, None, None),
     MetaForAll(TYPE_FLAT, Num(Units(100)), Num(Units(10)), None, None,
                Str(IsoDate(Date(2024, 1, 15)))),
     MetaForAll(TYPE_FLAT, Num(Units(100)), Num(Units(10)), None, None,
                Str(IsoDate(Date(2024, 1, 10))))}

\* lights with numbers, with text that is no number or no date, and with an
\* int too large for a float as gain or as settemp
LightsMalformed ==
    {Meta(Str(<<"L", "I", "G", "H", "T">>), CAMERA_A, gain, None, exposureseconds, settemp,
          FILTER_HA, Str(<<"n", "/", "a">>)) :
        gain \in {Num(Units(100)), Str(<<"h", "i", "g", "h">>), Big},
        exposureseconds \in {Num(Units(90)), Str(<<"n", "/", "a">>)},
        settemp \in {None, Big}}

\* a frame of the light's camera and filter with possibly malformed values
MalformedMeta(type, gain, offset, exposureseconds, settemp, date) ==
    Meta(Str(type), CAMERA_A, gain, offset, exposureseconds, settemp, FILTER_HA, date)

\* darks, biases and flats with numbers, with text that is no number or no
\* date, and with an int too large for a float
MetasMalformed ==
    {MalformedMeta(TYPE_DARK, Num(Units(100)), None, Num(Units(90)), None, None),
     MalformedMeta(TYPE_DARK, Str(<<"h", "i", "g", "h">>), None, Str(<<"n", "/", "a">>),
                   Str(<<"c", "o", "l", "d">>), None),
     MalformedMeta(TYPE_DARK, Num(Units(100)), None, Big, None, None),
     MalformedMeta(TYPE_DARK, Num(Units(200)), None, Num(Units(90)), Big, None),
     MalformedMeta(TYPE_BIAS, Num(Units(100)), Str(<<"x">>), None, None, None),
     MalformedMeta(TYPE_BIAS, Num(Units(100)), Big, None, None, None),
     MalformedMeta(TYPE_FLAT, Num(Units(100)), None, None, None, Str(<<"n", "/", "a">>)),
     MalformedMeta(TYPE_FLAT, Big, None, None, None, Str(CompactDate(Date(2024, 1, 9))))}

\* a light whose gain, offset, exposureseconds and settemp are given
LightWithNumericFields(gain, offset, exposureseconds, settemp) ==
    Meta(Str(<<"L", "I", "G", "H", "T">>), CAMERA_A, gain, offset, exposureseconds, settemp,
         FILTER_HA, None)

\* a light with four numbers, one with text that is no number for gain,
\* offset and settemp, one with such text for exposureseconds
LightsCoercion ==
    {LightWithNumericFields(Num(Units(100)), Num(Units(10)), Num(Units(90)), Num(-Units(10))),
     LightWithNumericFields(Str(<<"h", "i", "g", "h">>), Str(<<"x">>), Num(Units(90)),
                            Str(<<"c", "o", "l", "d">>)),
     LightWithNumericFields(Num(Units(100)), Num(Units(10)), Str(<<"n", "/", "a">>),
                            Num(-Units(10)))}

\* a frame of the light's camera and filter without a date
MetaWithNumericFields(type, gain, offset, exposureseconds, settemp) ==
    Meta(Str(type), CAMERA_A, gain, offset, exposureseconds, settemp, FILTER_HA, None)

\* darks, biases and flats with numbers and with text that is no number in
\* each of the four numeric fields
MetasCoercion ==
    {MetaWithNumericFields(TYPE_DARK, Num(Units(100)), Num(Units(10)), Num(Units(90)),
                           Num(-Units(10))),
     MetaWithNumericFields(TYPE_DARK, Str(<<"h", "i", "g", "h">>), Str(<<"x">>),
                           Num(Units(120)), Str(<<"c", "o", "l", "d">>)),
     MetaWithNumericFields(TYPE_DARK, Num(Units(100)), Num(Units(10)), Str(<<"n", "/", "a">>),
                           Num(-Units(10))),
     MetaWithNumericFields(TYPE_BIAS, Str(<<"h", "i", "g", "h">>), Str(<<"x">>), None, None),
     MetaWithNumericFields(TYPE_FLAT, Str(<<"h", "i", "g", "h">>), Str(<<"x">>), None, None)}

\* temperature_tolerance arguments: 0.0 and the default 5.0
TemperatureTolerances == {0, Units(5)}

\* date_tolerance_days arguments: None, 0 and 5
DateTolerances == {Nothing, Some(0), Some(5)}

\* darks of 90 s and of 120 s, and darks whose exposureseconds is NaN, as a
\* float and as the text "nan"
MetasNaN ==
    {DarkMeta(TYPE_DARK, Num(Units(90)), None),
     DarkMeta(TYPE_DARK, Num(Units(120)), Num(Units(-10))),
     DarkMeta(TYPE_DARK, NaN, None),
     DarkMeta(TYPE_DARK, Str(<<"n", "a", "n">>), Num(Units(-10)))}

\* lights of 90 s, with and without a set temperature
LightsNaN ==
    {LightForDark(Num(Units(90)), None),
     LightForDark(Num(Units(90)), Num(Units(-10)))}

\* the first and the last second of a day
TimesOfDay == {Time(0, 0, 1), Time(23, 59, 59)}

\* three consecutive days
DaysInARow == {Date(2024, 1, 14), Date(2024, 1, 15), Date(2024, 1, 16)}

\* lights taken on 2024-01-15: in its first second, in its last second, and
\* dated without a time
LightsTimes ==
    {LightForFlat(Str(IsoDateTime(Date(2024, 1, 15), tm))) : tm \in TimesOfDay}
       \cup {LightForFlat(Str(IsoDate(Date(2024, 1, 15))))}

\* flats of the light's filter taken in the first and in the last second of
\* the day before, the same day and the day after; a flat of the day before
\* dated without a time
MetasTimes ==
    {FlatMeta(TYPE_FLAT, FILTER_HA, Str(IsoDateTime(d, tm))) :
        d \in DaysInARow, tm \in TimesOfDay}
       \cup {FlatMeta(TYPE_FLAT, FILTER_HA, Str(IsoDate(Date(2024, 1, 14))))}

\* the frame's arguments: the function called and its arguments besides
\* light_metadata and calibration_data; an argument the function does not
\* take is Nothing (or FALSE, or 0)
Call(fn, calibration_metadata, temperature_tolerance, date_tolerance_days, prefer_exact_exposure, match_gain, match_offset) ==
    [fn |-> fn, calibration_metadata |-> calibration_metadata,
     temperature_tolerance |-> temperature_tolerance,
     date_tolerance_days |-> date_tolerance_days,
     prefer_exact_exposure |-> prefer_exact_exposure,
     match_gain |-> match_gain, match_offset |-> match_offset]

NoCall == Call("", Nothing, 0, Nothing, FALSE, FALSE, FALSE)

----------------------------------------------------------------------------
(* The calls *)

\* The matchers are synchronous and keep nothing between calls: a call starts
\* when no call is in progress, its frame (arguments, locals, return value)
\* stays visible until Return discards it.  A call that raises leaves the
\* exception and neither locals nor a value.
Idle == call = NoCall

FindMatchingDark ==
    \E tol \in TemperatureTolerances, prefer \in BOOLEAN, mg \in BOOLEAN, mo \in BOOLEAN :
        /\ Idle
        /\ call' = Call("find_matching_dark", Nothing, tol, Nothing, prefer, mg, mo)
        /\ \E exc \in {DarkRaises(light, pool, mg, mo)} :
              /\ raised' = exc
              /\ \E frame \in {IF exc = NoException
                                THEN DarkCall(light, pool, tol, prefer, mg, mo)
                                ELSE [candidates |-> <<>>, result |-> Nothing]} :
                    candidates' = frame.candidates /\ result' = frame.result
        /\ light_date' = Nothing
        /\ UNCHANGED <<light, pool, logging_vars, progress_vars, thread_vars>>

\* the mutated call: the entry the bias matcher returns is deleted from the
\* pool
FindMatchingBiasConsuming ==
    \E mg \in BOOLEAN, mo \in BOOLEAN :
        /\ Idle
        /\ call' = Call("find_matching_bias", Nothing, 0, Nothing, FALSE, mg, mo)
        /\ raised' = BiasRaises(light, pool, mg, mo)
        /\ result' = find_matching_bias(light, pool, mg, mo)
        /\ pool' = SelectSeq(pool, LAMBDA entry :
                                find_matching_bias(light, pool, mg, mo) # Some(entry.filename))
        /\ candidates' = <<>>
        /\ light_date' = Nothing
        /\ UNCHANGED <<light, logging_vars, progress_vars, thread_vars>>

FindMatchingBias ==
    \E mg \in BOOLEAN, mo \in BOOLEAN :
        /\ Idle
        /\ call' = Call("find_matching_bias", Nothing, 0, Nothing, FALSE, mg, mo)
        /\ \E exc \in {BiasRaises(light, pool, mg, mo)} :
              /\ raised' = exc
              /\ result' = IF exc = NoException THEN find_matching_bias(light, pool, mg, mo)
                            ELSE Nothing
        /\ candidates' = <<>>
        /\ light_date' = Nothing
        /\ UNCHANGED <<light, pool, logging_vars, progress_vars, thread_vars>>

FindMatchingFlat ==
    \E days \in DateTolerances, mg \in BOOLEAN, mo \in BOOLEAN :
        /\ Idle
        /\ call' = Call("find_matching_flat", Nothing, 0, days, FALSE, mg, mo)
        /\ \E exc \in {FlatRaises(light, pool, mg, mo)} :
              /\ raised' = exc
              /\ \E frame \in {IF exc = NoException
                                THEN FlatCall(light, pool, days, mg, mo)
                                ELSE [light_date |-> Nothing, candidates |-> <<>>,
                                      result |-> Nothing]} :
                    /\ light_date' = frame.light_date
                    /\ candidates' = frame.candidates
                    /\ result' = frame.result
        /\ UNCHANGED <<light, pool, logging_vars, progress_vars, thread_vars>>

\* _matches_camera_settings applied to the light and one pool entry
MatchesCameraSettings ==
    \E i \in 1..Len(pool), mg \in BOOLEAN, mo \in BOOLEAN :
        /\ Idle
        /\ call' = Call("_matches_camera_settings", Some(pool[i].meta), 0, Nothing,
                        FALSE, mg, mo)
        /\ \E exc \in {MatchesCameraSettingsRaises(light, pool[i].meta, mg, mo)} :
              /\ raised' = exc
              /\ result' = IF exc = NoException
                            THEN Some(_matches_camera_settings(light, pool[i].meta, mg, mo))
                            ELSE Nothing
        /\ candidates' = <<>>
        /\ light_date' = Nothing
        /\ UNCHANGED <<light, pool, logging_vars, progress_vars, thread_vars>>

\* find_all_matching_calibrations runs the three matchers and returns the
\* dict of their results
FindAllMatchingCalibrations ==
    \E tol \in TemperatureTolerances, days \in DateTolerances, prefer \in BOOLEAN, mg \in BOOLEAN, mo \in BOOLEAN :
        /\ Idle
        /\ call' = Call("find_all_matching_calibrations", Nothing, tol, days, prefer, mg, mo)
        /\ \E exc \in {AllRaises(light, pool, mg, mo)} :
              /\ raised' = exc
              /\ result' = IF exc = NoException
                            THEN Some(find_all_matching_calibrations(light, pool, tol, days,
                                                                     prefer, mg, mo))
                            ELSE Nothing
        /\ candidates' = <<>>
        /\ light_date' = Nothing
        /\ UNCHANGED <<light, pool, logging_vars, progress_vars, thread_vars>>

\* the call returns to its caller and its frame is discarded
Return ==
    /\ ~ Idle
    /\ call' = NoCall
    /\ light_date' = Nothing
    /\ candidates' = <<>>
    /\ result' = Nothing
    /\ raised' = NoException
    /\ UNCHANGED <<light, pool, logging_vars, progress_vars, thread_vars>>

----------------------------------------------------------------------------
(* Matcher calls of several threads on one pool *)

\* the threads; each matches its own light frame against the shared pool
Threads == {"t1", "t2"}

\* a second light frame: 120 s at -15 degrees, taken on 2024-01-10
LightSecond ==
    Meta(Str(<<"L", "I", "G", "H", "T">>), CAMERA_A, Num(Units(100)), Num(Units(10)),
         Num(Units(120)), Num(Units(-15)), FILTER_HA, Str(IsoDate(Date(2024, 1, 10))))

\* the light frame of each thread
LightOf(t) == IF t = "t1" THEN LightForAll ELSE LightSecond

\* the calls a thread makes: the function and the arguments that vary; the
\* others are temperature_tolerance=5.0, match_gain=True, match_offset=True
CallKinds ==
    {[fn |-> "find_matching_dark", prefer_exact_exposure |-> p, date_tolerance_days |-> Nothing] :
        p \in BOOLEAN}
    \cup {[fn |-> "find_matching_bias", prefer_exact_exposure |-> FALSE,
           date_tolerance_days |-> Nothing]}
    \cup {[fn |-> "find_matching_flat", prefer_exact_exposure |-> FALSE, date_tolerance_days |-> d] :
            d \in {Nothing, Some(5)}}

\* lines 141 and 273: the default of temperature_tolerance
DEFAULT_TEMPERATURE_TOLERANCE == Units(5)

\* the frame of a thread that is in no call
IdleFrame(light_metadata) ==
    [pc |-> "idle", fn |-> "", light |-> light_metadata, prefer_exact_exposure |-> FALSE,
     date_tolerance_days |-> Nothing, i |-> 0, candidates |-> <<>>,
     light_date |-> Nothing, result |-> Nothing]

\* no thread has been started
NoThreads == frames = <<>>

\* the mutated owner of the candidates list: one list at module level, which
\* every call uses
CandidatesShared(t) == "t1"

\* lines 175 and 322: the frame that holds the candidates list of the call
\* of thread t: candidates is a local of the call
CandidatesOf(t) == t

\* the frame of thread t at the start of a call, before the loop: lines
\* 169-175, 298-322; a call without the value it needs returns None at once
FrameAtCall(frame, kind) ==
    [frame EXCEPT
        !.fn = kind.fn,
        !.prefer_exact_exposure = kind.prefer_exact_exposure,
        !.date_tolerance_days = kind.date_tolerance_days,
        !.i = 0,
        !.light_date = IF kind.fn = "find_matching_flat"
                       THEN LightDate(frame.light, kind.date_tolerance_days)
                       ELSE Nothing,
        !.result = Nothing,
        !.pc = IF \/ kind.fn = "find_matching_dark"
                     /\ _get_float_value(frame.light, "exposureseconds") = None
                  \/ kind.fn = "find_matching_flat"
                     /\ _get_str_value(frame.light, "filter") = None
               THEN "done" ELSE "loop"]

\* the candidates list after one round of the loop of the frame's call on
\* pool entry e: lines 177-213, 324-367; find_matching_bias keeps no list
CandidatesAfterRound(frame, cands, e) ==
    IF frame.fn = "find_matching_dark"
    THEN IF DarkSurvives(frame.light, e.meta, DEFAULT_TEMPERATURE_TOLERANCE, TRUE, TRUE)
         THEN Append(cands, DarkCandidate(e.filename,
                                _get_float_value(e.meta, "exposureseconds"),
                                _get_float_value(frame.light, "exposureseconds")))
         ELSE cands
    ELSE IF frame.fn = "find_matching_flat"
    THEN FlatLoopBody(cands, frame.light, e,
                      FlatDaysDiff(frame.light_date, e.meta, frame.date_tolerance_days),
                      frame.date_tolerance_days, TRUE, TRUE)
    ELSE cands

\* lines 255-265: the round of find_matching_bias returns this entry
BiasFound(frame, e) ==
    /\ frame.fn = "find_matching_bias"
    /\ _is_calibration_type(e.meta, TYPE_BIAS, TYPE_MASTER_BIAS)
    /\ _matches_camera_settings(frame.light, e.meta, TRUE, TRUE)

\* lines 215-226, 267, 369-375: the value returned after the loop
ResultAfterLoop(frame, cands) ==
    IF frame.fn = "find_matching_bias" \/ cands = <<>> THEN Nothing
    ELSE IF frame.fn = "find_matching_dark"
    THEN Some(SortDark(cands, frame.prefer_exact_exposure)[1].filename)
    ELSE Some(SortFlat(cands)[1].filename)

\* thread t calls a matcher with its light and the shared pool
ThreadCall(t) ==
    \E kind \in CallKinds :
        /\ frames[t].pc = "idle"
        /\ frames' = [[frames EXCEPT ![t] = FrameAtCall(frames[t], kind)]
                         EXCEPT ![CandidatesOf(t)].candidates = <<>>]
        /\ UNCHANGED <<matcher_vars, logging_vars, progress_vars>>

\* one round of the loop of thread t's call, or the statements after the
\* loop when the pool is exhausted
ThreadStep(t) ==
    /\ frames[t].pc = "loop"
    /\ \E cands \in {frames[CandidatesOf(t)].candidates} :
          IF frames[t].i < Len(pool)
          THEN \E e \in {pool[frames[t].i + 1]} :
                  IF BiasFound(frames[t], e)
                  THEN frames' = [frames EXCEPT ![t].pc = "done",
                                                ![t].result = Some(e.filename)]
                  ELSE frames' = [[frames EXCEPT ![t].i = @ + 1]
                                     EXCEPT ![CandidatesOf(t)].candidates =
                                               CandidatesAfterRound(frames[t], cands, e)]
          ELSE frames' = [frames EXCEPT ![t].pc = "done",
                                        ![t].result = ResultAfterLoop(frames[t], cands)]
    /\ UNCHANGED <<matcher_vars, logging_vars, progress_vars>>

\* the caller of thread t takes the result; the frame is gone
ThreadReturn(t) ==
    /\ frames[t].pc = "done"
    /\ frames' = [frames EXCEPT ![t] = IdleFrame(frames[t].light)]
    /\ UNCHANGED <<matcher_vars, logging_vars, progress_vars>>

InitDark ==
    /\ light \in LightsDark
    /\ pool \in PoolsOf(MetasDark)
    /\ call = NoCall
    /\ light_date = Nothing
    /\ candidates = <<>>
    /\ result = Nothing
    /\ raised = NoException
    /\ NoLogging
    /\ NoProgress
    /\ NoThreads

NextDark == FindMatchingDark \/ Return

SpecDark == InitDark /\ [][NextDark]_vars

\* the frame of no call, for the inputs given
NoFrame ==
    /\ call = NoCall
    /\ light_date = Nothing
    /\ candidates = <<>>
    /\ result = Nothing
    /\ raised = NoException
    /\ NoLogging
    /\ NoProgress
    /\ NoThreads

InitNaN == light \in LightsNaN /\ pool \in PoolsOf(MetasNaN) /\ NoFrame

NextNaN == FindMatchingDark \/ Return

SpecNaN == InitNaN /\ [][NextNaN]_vars

InitTimes == light \in LightsTimes /\ pool \in PoolsOf(MetasTimes) /\ NoFrame

NextTimes == FindMatchingFlat \/ Return

SpecTimes == InitTimes /\ [][NextTimes]_vars

\* the threads are started, each with its light, on one pool
InitThreads ==
    /\ light = LightForAll
    /\ pool \in PoolsOf(MetasAll)
    /\ call = NoCall
    /\ light_date = Nothing
    /\ candidates = <<>>
    /\ result = Nothing
    /\ raised = NoException
    /\ NoLogging
    /\ NoProgress
    /\ frames = [t \in Threads |-> IdleFrame(LightOf(t))]

NextThreads == \E t \in Threads : ThreadCall(t) \/ ThreadStep(t) \/ ThreadReturn(t)

SpecThreads == InitThreads /\ [][NextThreads]_vars

InitBias == light \in LightsBias /\ pool \in PoolsOf(MetasBias) /\ NoFrame

NextBias == FindMatchingBias \/ Return

SpecBias == InitBias /\ [][NextBias]_vars

InitFlat == light \in LightsFlat /\ pool \in PoolsOf(MetasFlat) /\ NoFrame

NextFlat == FindMatchingFlat \/ Return

SpecFlat == InitFlat /\ [][NextFlat]_vars

InitCamera == light \in LightsCamera /\ pool \in PoolsOf(MetasCamera) /\ NoFrame

NextCamera == FindMatchingDark \/ FindMatchingBias \/ FindMatchingFlat \/ Return

SpecCamera == InitCamera /\ [][NextCamera]_vars

\* one candidate at a time for the pure function
InitSettings ==
    /\ light \in LightsSettings
    /\ pool \in {<<[filename |-> FILENAMES[1], meta |-> m]>> : m \in MetasSettings}
    /\ NoFrame

NextSettings == MatchesCameraSettings \/ Return

SpecSettings == InitSettings /\ [][NextSettings]_vars

InitFilter == light \in LightsFilter /\ pool \in PoolsOf(MetasFilter) /\ NoFrame

NextFilter == FindMatchingFlat \/ Return

SpecFilter == InitFilter /\ [][NextFilter]_vars

InitExposure ==
    light \in LightsWithoutExposure /\ pool \in PoolsOf(MetasDark) /\ NoFrame

NextExposure == FindMatchingDark \/ Return

SpecExposure == InitExposure /\ [][NextExposure]_vars

InitTypes ==
    light = LightWithCamera(CAMERA_A) /\ pool \in PoolsOf(MetasTypes) /\ NoFrame

NextTypes == FindMatchingDark \/ FindMatchingBias \/ FindMatchingFlat \/ Return

SpecTypes == InitTypes /\ [][NextTypes]_vars

InitAll == light = LightForAll /\ pool \in PoolsOf(MetasAll) /\ NoFrame

NextAll ==
    \/ FindMatchingDark
    \/ FindMatchingBias
    \/ FindMatchingFlat
    \/ FindAllMatchingCalibrations
    \/ Return

SpecAll == InitAll /\ [][NextAll]_vars

InitMalformed ==
    light \in LightsMalformed /\ pool \in PoolsOf(MetasMalformed) /\ NoFrame

NextMalformed ==
    \/ FindMatchingDark
    \/ FindMatchingBias
    \/ FindMatchingFlat
    \/ FindAllMatchingCalibrations
    \/ Return

SpecMalformed == InitMalformed /\ [][NextMalformed]_vars

InitCoercion ==
    light \in LightsCoercion /\ pool \in PoolsOf(MetasCoercion) /\ NoFrame

NextCoercion ==
    \/ FindMatchingDark
    \/ FindMatchingBias
    \/ FindMatchingFlat
    \/ FindAllMatchingCalibrations
    \/ Return

SpecCoercion == InitCoercion /\ [][NextCoercion]_vars

\* the calls of logging_config; no matcher is called
InitLogging == light = LightForAll /\ pool = <<>> /\ NoFrame

NextLogging == SetupLogging \/ GetLogger

SpecLogging == InitLogging /\ [][NextLogging]_vars

\* the calls of progress; no matcher is called and nothing is logged
InitProgress == light = LightForAll /\ pool = <<>> /\ NoFrame

\* a tracker driven by hand and as a context manager, without a loop
NextTracker ==
    \/ ProgressTrackerInit
    \/ Start
    \/ Update
    \/ SetStatus
    \/ SetDescription
    \/ Finish
    \/ Enter
    \/ Exit
    \/ CollectBar

SpecTracker == InitProgress /\ [][NextTracker]_vars

\* a for loop over progress_iter or over a tracker, in or out of its context
\* manager, with the calls the loop body and the caller may make
NextIteration ==
    \/ ProgressTrackerInit
    \/ Enter
    \/ Exit
    \/ Start
    \/ Finish
    \/ SetStatus
    \/ Iter
    \/ ProgressIter
    \/ NextOfIterator
    \/ TrackerNext
    \/ CollectBar

SpecIteration == InitProgress /\ [][NextIteration]_vars

----------------------------------------------------------------------------
(* Properties of find_matching_dark *)

DarkCalled == call.fn = "find_matching_dark"

\* the call returned the filename of pool entry i
Returned(i) == result = Some(pool[i].filename)

\* pool entry i is in the candidates list of the call
InCandidates(i) ==
    \E k \in 1..Len(candidates) : candidates[k].filename = pool[i].filename

LightExposure == _get_float_value(light, "exposureseconds")

LightTemp == _get_float_value(light, "settemp")

ExposureOf(i) == _get_float_value(pool[i].meta, "exposureseconds")

TempOf(i) == _get_float_value(pool[i].meta, "settemp")

IsDark(i) == _is_calibration_type(pool[i].meta, TYPE_DARK, TYPE_MASTER_DARK)

\* pool entry i passes every filter of the dark matcher under the call's arguments
PassesDarkFilters(i) ==
    DarkSurvives(light, pool[i].meta, call.temperature_tolerance,
                 call.match_gain, call.match_offset)

\* pool entry i passes the type, camera-settings and exposure filters
PassesBeforeTemperature(i) ==
    /\ IsDark(i)
    /\ _matches_camera_settings(light, pool[i].meta, call.match_gain, call.match_offset)
    /\ ExposureOf(i) # None
    /\ FloatAtLeast(ExposureOf(i), LightExposure)

\* C1: whenever find_matching_dark returns an identifier, that pool entry has
\* a numeric exposureseconds greater than or equal to the light's; a shorter
\* dark is never returned, and when no entry is as long as the light the
\* result is none.
C1_ReturnedDarkNotShorter ==
    DarkCalled =>
      /\ \A i \in 1..Len(pool) :
            Returned(i) =>
               /\ LightExposure # None
               /\ ExposureOf(i) # None
               /\ FloatAtLeast(ExposureOf(i), LightExposure)
      /\ (\A i \in 1..Len(pool) :
             ExposureOf(i) # None /\ LightExposure # None
                => ~ FloatAtLeast(ExposureOf(i), LightExposure))
            => result = Nothing

\* a longer dark was returned from a pool that also holds a shorter dark
C1_Witness ==
    /\ DarkCalled
    /\ \E i, j \in 1..Len(pool) :
          /\ Returned(i) /\ ExposureOf(i).n > LightExposure.n
          /\ IsDark(j) /\ ExposureOf(j) # None /\ ExposureOf(j).n < LightExposure.n

\* C2: when at least one dark passes the type, camera-settings, exposure and
\* temperature filters, find_matching_dark returns a dark that passes them
\* and whose exposure is the minimum among all darks that pass them.
C2_ReturnsShortestUsableDark ==
    (DarkCalled /\ LightExposure # None /\ \E i \in 1..Len(pool) : PassesDarkFilters(i))
      => \E i \in 1..Len(pool) :
            /\ Returned(i)
            /\ PassesDarkFilters(i)
            /\ \A j \in 1..Len(pool) :
                  PassesDarkFilters(j) => FloatAtLeast(ExposureOf(j), ExposureOf(i))

\* the returned dark is strictly shorter than a dark that passes the filters
\* and comes earlier in the pool, and strictly longer than the light
C2_Witness ==
    /\ DarkCalled
    /\ \E i, j \in 1..Len(pool) :
          /\ j < i /\ Returned(i) /\ PassesDarkFilters(j)
          /\ ExposureOf(i).n < ExposureOf(j).n
          /\ ExposureOf(i).n >= LightExposure.n + EXACT_EPSILON

\* C3: with prefer_exact_exposure true, if some dark passing all filters has
\* an exposure within 0.001 of the light's, the returned dark's exposure is
\* within 0.001 of the light's, whatever the pool order.
C3_ExactPreferred ==
    (/\ DarkCalled /\ call.prefer_exact_exposure /\ LightExposure # None
     /\ \E i \in 1..Len(pool) :
           PassesDarkFilters(i) /\ Abs(ExposureOf(i).n - LightExposure.n) < EXACT_EPSILON)
      => \E i \in 1..Len(pool) :
            Returned(i) /\ Abs(ExposureOf(i).n - LightExposure.n) < EXACT_EPSILON

\* an exact dark was returned although a longer, non-exact dark that passes
\* the filters comes before it in the pool
C3_Witness ==
    /\ DarkCalled /\ call.prefer_exact_exposure
    /\ \E i, j \in 1..Len(pool) :
          /\ j < i /\ Returned(i)
          /\ Abs(ExposureOf(i).n - LightExposure.n) < EXACT_EPSILON
          /\ PassesDarkFilters(j)
          /\ ExposureOf(j).n - LightExposure.n >= EXACT_EPSILON

\* C10: a dark that passes the type, camera-settings and exposure filters is
\* excluded on temperature exactly when both the light and the dark have a
\* numeric settemp and the absolute difference is strictly greater than
\* temperature_tolerance; at a difference equal to the tolerance, and when
\* either side lacks settemp, it is kept.
C10_TemperatureFilter ==
    (DarkCalled /\ LightExposure # None)
      => \A i \in 1..Len(pool) :
            PassesBeforeTemperature(i) =>
               (~ InCandidates(i) <=>
                    /\ LightTemp # None
                    /\ TempOf(i) # None
                    /\ Abs(LightTemp.n - TempOf(i).n) > call.temperature_tolerance)

\* a dark exactly at a positive tolerance was kept and one just beyond it
\* was excluded
C10_Witness ==
    /\ DarkCalled /\ call.temperature_tolerance > 0 /\ LightTemp # None
    /\ \E i, j \in 1..Len(pool) :
          /\ PassesBeforeTemperature(i) /\ TempOf(i) # None
          /\ Abs(LightTemp.n - TempOf(i).n) = call.temperature_tolerance
          /\ InCandidates(i)
          /\ PassesBeforeTemperature(j) /\ TempOf(j) # None
          /\ Abs(LightTemp.n - TempOf(j).n) > call.temperature_tolerance
          /\ ~ InCandidates(j)

----------------------------------------------------------------------------
(* Properties of find_matching_bias *)

BiasCalled == call.fn = "find_matching_bias"

\* pool entry i is a bias whose camera settings match the light's
BiasQualifies(i) ==
    /\ _is_calibration_type(pool[i].meta, TYPE_BIAS, TYPE_MASTER_BIAS)
    /\ _matches_camera_settings(light, pool[i].meta, call.match_gain, call.match_offset)

\* C7: find_matching_bias returns the identifier of the first pool entry, in
\* pool order, whose type is BIAS or MASTER BIAS and whose camera settings
\* match the light; entries before it that fail either check are skipped,
\* and none is returned only if no entry passes both.
C7_FirstMatchingBias ==
    BiasCalled =>
      IF \E i \in 1..Len(pool) : BiasQualifies(i)
      THEN \E i \in 1..Len(pool) :
              /\ BiasQualifies(i)
              /\ \A j \in 1..(i - 1) : ~ BiasQualifies(j)
              /\ Returned(i)
      ELSE result = Nothing

\* the first of two qualifying biases was returned
C7_Witness ==
    /\ BiasCalled
    /\ \E i, k \in 1..Len(pool) :
          i < k /\ Returned(i) /\ BiasQualifies(i) /\ BiasQualifies(k)

----------------------------------------------------------------------------
(* Properties of the camera check in the three matchers *)

MatcherCalled ==
    call.fn \in {"find_matching_dark", "find_matching_bias", "find_matching_flat"}

\* pool entry i was found eligible by the call: it is among the candidates
\* of the dark or flat matcher, or it is what the call returned
Eligible(i) == InCandidates(i) \/ Returned(i)

\* C8: in all three matchers a candidate is eligible only if the camera is
\* present on both the light and the candidate and the two strings are
\* exactly equal, case included; if the light has no camera, every matcher
\* returns none for every pool.
C8_CameraRequired ==
    MatcherCalled =>
      /\ \A i \in 1..Len(pool) :
            Eligible(i) =>
               /\ light.camera # None
               /\ pool[i].meta.camera # None
               /\ light.camera.s = pool[i].meta.camera.s
      /\ light.camera = None => result = Nothing

\* a frame was returned although an earlier frame of the same type has the
\* light's camera name in another case
C8_Witness ==
    /\ MatcherCalled
    /\ light.camera # None
    /\ \E i, j \in 1..Len(pool) :
          /\ j < i /\ Returned(i)
          /\ pool[j].meta.type = pool[i].meta.type
          /\ pool[j].meta.camera # None
          /\ pool[j].meta.camera # light.camera
          /\ Upper(pool[j].meta.camera.s) = Upper(light.camera.s)

----------------------------------------------------------------------------
(* Properties of _matches_camera_settings *)

SettingsCalled == call.fn = "_matches_camera_settings"

\* the candidate the call was given
CalMeta == call.calibration_metadata[1]

\* the setting is to be matched, both sides have a number for it and the
\* numbers differ
SettingRejects(key, match) ==
    /\ match
    /\ _get_float_value(light, key) # None
    /\ _get_float_value(CalMeta, key) # None
    /\ _get_float_value(light, key).n # _get_float_value(CalMeta, key).n

\* C9: with cameras equal, _matches_camera_settings rejects a candidate on
\* gain exactly when match_gain is true, both sides have a numeric gain and
\* the numbers differ; with match_gain false or a side without a numeric
\* gain the gain check passes; the same for offset under match_offset.
C9_GainOffsetRule ==
    (/\ SettingsCalled
     /\ light.camera # None /\ CalMeta.camera # None
     /\ light.camera.s = CalMeta.camera.s)
      => (result = Some(FALSE)
            <=> \/ SettingRejects("gain", call.match_gain)
                \/ SettingRejects("offset", call.match_offset))

\* a candidate with a gain was accepted under match_gain for a light whose
\* gain is no number
C9_Witness ==
    /\ SettingsCalled /\ call.match_gain
    /\ result = Some(TRUE)
    /\ light.gain # None
    /\ _get_float_value(light, "gain") = None
    /\ _get_float_value(CalMeta, "gain") # None

----------------------------------------------------------------------------
(* Properties of find_matching_flat *)

FlatCalled == call.fn = "find_matching_flat"

\* the metadata value is the calendar date d written as an ISO date, as a
\* compact numeric date or as an ISO date-time
Denotes(value, d) ==
    /\ value # None
    /\ \/ value.s = IsoDate(d)
       \/ value.s = CompactDate(d)
       \/ \E tm \in TestTimes : value.s = IsoDateTime(d, tm)

\* the days between two calendar dates
DaysApart(a, b) == Abs(Ordinal(a) - Ordinal(b))

\* pool entry i passes the type, camera-settings and filter checks
PassesBeforeDate(i) ==
    FlatPassesBeforeDate(light, pool[i].meta, call.match_gain, call.match_offset)

\* the days_diff recorded for pool entry i in the candidates list
RecordedScore(i) ==
    (CHOOSE c \in {candidates[k] : k \in 1..Len(candidates)} :
        c.filename = pool[i].filename).days_diff

\* C4: with date_tolerance_days set and a dated light, a dated flat is
\* excluded whenever the absolute day difference between the two dates is
\* strictly greater than the tolerance, and is not excluded when the
\* difference equals the tolerance.
C4_DateToleranceBoundary ==
    (FlatCalled /\ call.date_tolerance_days # Nothing) =>
      \A i \in 1..Len(pool) : \A dl \in TestDates, df \in TestDates :
         (/\ PassesBeforeDate(i)
          /\ Denotes(light.date, dl)
          /\ Denotes(pool[i].meta.date, df))
           => /\ DaysApart(dl, df) > call.date_tolerance_days[1] => ~ InCandidates(i)
              /\ DaysApart(dl, df) = call.date_tolerance_days[1] => InCandidates(i)

\* C5: the date parser accepts an ISO date, a compact numeric date and an
\* ISO date-time and yields the calendar date the string denotes; the same
\* day written in two of these forms gives a day difference of 0.
C5_ParserYieldsDenotedDate ==
    (FlatCalled /\ call.date_tolerance_days # Nothing) =>
      \A dl \in TestDates :
         Denotes(light.date, dl) =>
            /\ light_date # Nothing
            /\ Date(light_date[1].year, light_date[1].month, light_date[1].day) = dl
            /\ \A i \in 1..Len(pool) :
                  (PassesBeforeDate(i) /\ Denotes(pool[i].meta.date, dl))
                    => /\ InCandidates(i)
                       /\ RecordedScore(i) = [inf |-> FALSE, days |-> 0]

\* C6: the returned flat has the minimum absolute day difference from the
\* light's date among the surviving flats, a flat without a usable date
\* counting as positive infinity, so a dated flat within tolerance is chosen
\* over a date-less one.
C6_ReturnsClosestFlat ==
    (FlatCalled /\ call.date_tolerance_days # Nothing) =>
      \A dl \in TestDates :
         Denotes(light.date, dl) =>
            \A i \in 1..Len(pool), j \in 1..Len(pool) :
               (Returned(i) /\ InCandidates(j)) =>
                  \A dj \in TestDates :
                     Denotes(pool[j].meta.date, dj) =>
                        \E di \in TestDates :
                           /\ Denotes(pool[i].meta.date, di)
                           /\ DaysApart(dl, di) <= DaysApart(dl, dj)

\* C11: find_matching_flat returns none for every pool when the light has no
\* filter value, and otherwise any returned flat has a filter string present
\* and exactly equal, case included, to the light's filter.
C11_FilterRequired ==
    FlatCalled =>
      /\ light.filter = None => result = Nothing
      /\ \A i \in 1..Len(pool) :
            Returned(i) =>
               /\ light.filter # None
               /\ pool[i].meta.filter # None
               /\ pool[i].meta.filter.s = light.filter.s

\* a flat of the light's filter was returned although an earlier flat has
\* the filter's name in another case
C11_Witness ==
    /\ FlatCalled
    /\ light.filter # None
    /\ \E i, j \in 1..Len(pool) :
          /\ j < i /\ Returned(i)
          /\ _is_calibration_type(pool[j].meta, TYPE_FLAT, TYPE_MASTER_FLAT)
          /\ pool[j].meta.filter # None
          /\ pool[j].meta.filter # light.filter
          /\ Upper(pool[j].meta.filter.s) = Upper(light.filter.s)

\* C12: find_matching_dark returns none for every pool, pools with otherwise
\* compatible darks included, when the light's exposureseconds is missing,
\* null or not coercible to a number.
C12_NoExposureNoDark ==
    (/\ DarkCalled
     /\ \/ light.exposureseconds = None
        \/ \E t \in NonNumericTexts : light.exposureseconds = Str(t))
      => result = Nothing

\* the call returned none from a pool holding a dark that is returned to the
\* same light once it has an exposure of 90 s
C12_Witness ==
    /\ DarkCalled
    /\ \E t \in NonNumericTexts : light.exposureseconds = Str(t)
    /\ result = Nothing
    /\ find_matching_dark([light EXCEPT !.exposureseconds = Num(Units(90))], pool,
                          call.temperature_tolerance, call.prefer_exact_exposure,
                          call.match_gain, call.match_offset) # Nothing

----------------------------------------------------------------------------
(* Properties of the type check in the three matchers *)

\* the raw tag and the master tag of the kind of frame the called matcher
\* looks for
TagsOfCall ==
    CASE call.fn = "find_matching_dark" -> {TYPE_DARK, TYPE_MASTER_DARK}
      [] call.fn = "find_matching_bias" -> {TYPE_BIAS, TYPE_MASTER_BIAS}
      [] call.fn = "find_matching_flat" -> {TYPE_FLAT, TYPE_MASTER_FLAT}

\* C13: each matcher returns only frames of its own kind: the type of any
\* returned entry, upper-cased, is exactly the raw tag or the master tag of
\* that kind; an entry without type, or whose type merely contains the tag,
\* is never returned.
C13_OwnKindOnly ==
    MatcherCalled =>
      \A i \in 1..Len(pool) :
         Eligible(i) =>
            /\ pool[i].meta.type # None
            /\ Upper(pool[i].meta.type.s) \in TagsOfCall

\* a frame was returned although an earlier frame's type contains a tag of
\* the matcher's kind
C13_Witness ==
    /\ MatcherCalled
    /\ \E i, j \in 1..Len(pool) :
          /\ j < i /\ Returned(i)
          /\ pool[j].meta.type # None
          /\ Upper(pool[j].meta.type.s) \notin TagsOfCall
          /\ \E tag \in TagsOfCall : Contains(Upper(pool[j].meta.type.s), tag)

----------------------------------------------------------------------------
(* Properties of find_all_matching_calibrations *)

AllCalled == call.fn = "find_all_matching_calibrations"

\* C14: find_all_matching_calibrations returns a record whose dark, bias and
\* flat fields equal the results of find_matching_dark, find_matching_bias
\* and find_matching_flat called separately with the same light, pool and
\* corresponding parameters.
C14_AllEqualsSeparateCalls ==
    AllCalled =>
      /\ result[1].dark = find_matching_dark(light, pool, call.temperature_tolerance,
                                             call.prefer_exact_exposure,
                                             call.match_gain, call.match_offset)
      /\ result[1].bias = find_matching_bias(light, pool, call.match_gain, call.match_offset)
      /\ result[1].flat = find_matching_flat(light, pool, call.date_tolerance_days,
                                             call.match_gain, call.match_offset)

\* a call with date tolerance 0 whose flat field is the pool's second entry,
\* the first entry being a flat as well
C14_Witness ==
    /\ AllCalled
    /\ call.date_tolerance_days = Some(0)
    /\ Len(pool) >= 2
    /\ result[1].flat = Some(pool[2].filename)
    /\ _is_calibration_type(pool[1].meta, TYPE_FLAT, TYPE_MASTER_FLAT)

----------------------------------------------------------------------------
(* Properties of the results of every matcher *)

\* the keys of the calibration pool
PoolKeys == {pool[i].filename : i \in 1..Len(pool)}

\* the optional identifiers a call returned: the result of a single matcher,
\* the three fields of find_all_matching_calibrations
ResultIdentifiers ==
    IF AllCalled THEN {result[1].dark, result[1].bias, result[1].flat} ELSE {result}

\* C15: every identifier in a result of any matcher is a key of the input
\* pool, returned unchanged; with an empty pool every matcher returns none.
C15_IdentifiersFromPool ==
    (MatcherCalled \/ AllCalled) =>
      /\ \A r \in ResultIdentifiers : r = Nothing \/ r[1] \in PoolKeys
      /\ pool = <<>> => \A r \in ResultIdentifiers : r = Nothing

\* find_all_matching_calibrations returned the two keys of the pool, one as
\* the dark and one as the bias
C15_Witness ==
    /\ AllCalled
    /\ Len(pool) = 2
    /\ result[1].dark # Nothing
    /\ result[1].bias # Nothing
    /\ {result[1].dark[1], result[1].bias[1]} = PoolKeys

\* C16: when date_tolerance_days is not set, or it is set but the light's
\* date is absent or cannot be parsed, find_matching_flat applies no date
\* filtering and returns the first pool entry, in pool order, that passes
\* the type, camera-settings and filter checks, whatever the candidates'
\* dates are.
C16_NoDateFilteringFirstWins ==
    (/\ FlatCalled
     /\ \/ call.date_tolerance_days = Nothing
        \/ ~ \E d \in TestDates : Denotes(light.date, d))
      => /\ \A i \in 1..Len(pool) : PassesBeforeDate(i) => InCandidates(i)
         /\ IF \E i \in 1..Len(pool) : PassesBeforeDate(i)
            THEN \E i \in 1..Len(pool) :
                    /\ PassesBeforeDate(i)
                    /\ \A j \in 1..(i - 1) : ~ PassesBeforeDate(j)
                    /\ Returned(i)
            ELSE result = Nothing

\* without a tolerance the first flat was returned although it is of another
\* day than the light and the second flat is of the light's day
C16_Witness ==
    /\ FlatCalled
    /\ call.date_tolerance_days = Nothing
    /\ Len(pool) = 2
    /\ Returned(1)
    /\ PassesBeforeDate(2)
    /\ \E d1 \in TestDates, d2 \in TestDates :
          /\ d1 # d2
          /\ Denotes(pool[1].meta.date, d1)
          /\ Denotes(pool[2].meta.date, d2)
          /\ Denotes(light.date, d2)

----------------------------------------------------------------------------
(* Properties of the matchers on malformed metadata *)

\* the fields _get_float_value reads
NumericKeys == {"gain", "offset", "settemp", "exposureseconds"}

\* the value is text float() does not convert
NotCoercible(value) == value # None /\ value.k = "str" /\ FloatOfStr(value.s) = None

\* the metadata with the key missing where it is in keys and its value is
\* not coercible
WithoutNotCoercible(metadata, keys) ==
    [key \in DOMAIN metadata |->
        IF key \in keys /\ NotCoercible(metadata[key]) THEN None ELSE metadata[key]]

\* the pool with the same replacement in the entries whose place is in places
PoolWithoutNotCoercible(calibration_data, places, keys) ==
    [i \in 1..Len(calibration_data) |->
        IF i \in places
        THEN [calibration_data[i] EXCEPT !.meta = WithoutNotCoercible(@, keys)]
        ELSE calibration_data[i]]

\* what the function of the call returns for this light and this pool with
\* the call's parameters
ResultOf(light_metadata, calibration_data) ==
    IF DarkCalled
    THEN find_matching_dark(light_metadata, calibration_data, call.temperature_tolerance,
                            call.prefer_exact_exposure, call.match_gain, call.match_offset)
    ELSE IF BiasCalled
    THEN find_matching_bias(light_metadata, calibration_data,
                            call.match_gain, call.match_offset)
    ELSE IF FlatCalled
    THEN find_matching_flat(light_metadata, calibration_data, call.date_tolerance_days,
                            call.match_gain, call.match_offset)
    ELSE Some(find_all_matching_calibrations(light_metadata, calibration_data,
                                             call.temperature_tolerance,
                                             call.date_tolerance_days,
                                             call.prefer_exact_exposure,
                                             call.match_gain, call.match_offset))

\* the sets of keys replaced at once: each key alone and all four
KeyChoices == {{key} : key \in NumericKeys} \cup {NumericKeys}

\* C18: a value of gain, offset, settemp or exposureseconds that cannot be
\* coerced to a number behaves in every matcher as if the key were missing:
\* replacing it by a missing key, on the light, on any one candidate or
\* everywhere, leaves the result of the call unchanged, and the value is read
\* as absent, never as 0.
C18_NotCoercibleIsMissing ==
    (MatcherCalled \/ AllCalled) =>
      /\ \A keys \in KeyChoices :
            /\ result = ResultOf(WithoutNotCoercible(light, keys), pool)
            /\ \A i \in 1..Len(pool) :
                  result = ResultOf(light, PoolWithoutNotCoercible(pool, {i}, keys))
      /\ result = ResultOf(WithoutNotCoercible(light, NumericKeys),
                           PoolWithoutNotCoercible(pool, 1..Len(pool), NumericKeys))
      /\ \A key \in NumericKeys :
            /\ NotCoercible(light[key]) => _get_float_value(light, key) = None
            /\ \A i \in 1..Len(pool) :
                  NotCoercible(pool[i].meta[key])
                      => _get_float_value(pool[i].meta, key) = None

\* a dark call that checks gain and offset for a light whose gain, offset
\* and settemp are text that is no number, and returns the first entry, a
\* dark with numbers in the three fields
C18_Witness ==
    /\ DarkCalled
    /\ call.match_gain /\ call.match_offset
    /\ \A key \in {"gain", "offset", "settemp"} : NotCoercible(light[key])
    /\ Len(pool) >= 1
    /\ Returned(1)
    /\ \A key \in {"gain", "offset", "settemp"} : pool[1].meta[key].k = "num"

\* C17: for every light and every pool whose field values are strings,
\* numbers or null, non-numeric strings in numeric fields and non-date
\* strings in date included, find_matching_dark, find_matching_bias,
\* find_matching_flat and find_all_matching_calibrations complete with an
\* identifier or none and never raise.
C17_NeverRaises ==
    (MatcherCalled \/ AllCalled) => raised = NoException

----------------------------------------------------------------------------
(* Frame of the matchers *)

\* C19: no matcher call adds, removes, reorders or changes any entry of the
\* calibration pool or any field of the light metadata: both mappings are
\* the same after every step of a call as before it.
C19_InputsUnchanged == [][light' = light /\ pool' = pool]_vars

\* a dark call that put two candidates in another order than the pool's and
\* returned the second entry of the pool
C19_Witness ==
    /\ DarkCalled
    /\ Len(pool) >= 2
    /\ Len(candidates) >= 2
    /\ candidates[1].filename = pool[2].filename
    /\ candidates[2].filename = pool[1].filename
    /\ Returned(2)

----------------------------------------------------------------------------
(* Properties of setup_logging *)

SetupLoggingCalled == logging_call.fn = "setup_logging"

\* the logger the last call returned
ReturnedLogger == loggers[returned_logger[1]]

\* C20: setup_logging sets both the logger's level and its handler's level
\* to DEBUG when debug is true, whether or not quiet is true, to WARNING when
\* quiet is true and debug is false, and to INFO when both are false.
C20_LevelFromFlags ==
    SetupLoggingCalled =>
      /\ returned_logger = logging_call.name
      /\ Len(ReturnedLogger.handlers) >= 1
      /\ logging_call.debug
            => /\ ReturnedLogger.level = DEBUG
               /\ \A h \in 1..Len(ReturnedLogger.handlers) :
                     ReturnedLogger.handlers[h].level = DEBUG
      /\ (logging_call.quiet /\ ~ logging_call.debug)
            => /\ ReturnedLogger.level = WARNING
               /\ \A h \in 1..Len(ReturnedLogger.handlers) :
                     ReturnedLogger.handlers[h].level = WARNING
      /\ (~ logging_call.quiet /\ ~ logging_call.debug)
            => /\ ReturnedLogger.level = INFO
               /\ \A h \in 1..Len(ReturnedLogger.handlers) :
                     ReturnedLogger.handlers[h].level = INFO

\* setup_logging called with debug and quiet both true, the logger and its
\* handler at DEBUG
C20_Witness ==
    /\ SetupLoggingCalled
    /\ logging_call.debug /\ logging_call.quiet
    /\ ReturnedLogger.level = DEBUG
    /\ ReturnedLogger.handlers[1].level = DEBUG

\* the one handler setup_logging leaves for these arguments
HandlerOfCall(debug, quiet, log_format, date_format) ==
    ConsoleHandler(Level(debug, quiet), log_format, date_format)

\* this step is a call setup_logging(name, ...), made by the caller
SetupLoggingStepFor(name) ==
    /\ logging_call'.fn = "setup_logging"
    /\ logging_call'.name = Some(name)

\* this step is a get_logger() that finds _logger None and calls
\* setup_logging() with the defaults
DefaultSetupStep ==
    /\ logging_call'.fn = "get_logger"
    /\ logging_call'.name = Nothing
    /\ _logger = Nothing

\* C21: after any number of setup_logging calls for the same logger name,
\* with any flags, that logger has exactly one handler, and that handler's
\* level and format are those of the most recent call: every call for the
\* name leaves the logger with the one handler of that call, and no step
\* that is not a call for the name changes the logger.
C21_OneHandlerOfLastCall ==
    [][\A name \in LoggerNames :
          IF SetupLoggingStepFor(name)
          THEN loggers'[name].handlers =
                  <<HandlerOfCall(logging_call'.debug, logging_call'.quiet,
                                  logging_call'.log_format, logging_call'.date_format)>>
          ELSE IF DefaultSetupStep /\ name = DEFAULT_NAME
          THEN loggers'[name].handlers =
                  <<HandlerOfCall(FALSE, FALSE, LOG_FORMAT, DATE_FORMAT)>>
          ELSE loggers'[name] = loggers[name]]_vars

\* setup_logging with debug and a custom format for the default logger,
\* which get_logger() had set up before with the defaults (_logger is set):
\* the logger has the one handler of this call
C21_Witness ==
    /\ SetupLoggingCalled
    /\ logging_call.name = Some(DEFAULT_NAME)
    /\ _logger = Some(DEFAULT_NAME)
    /\ logging_call.debug
    /\ logging_call.log_format # LOG_FORMAT
    /\ Len(loggers[DEFAULT_NAME].handlers) = 1
    /\ loggers[DEFAULT_NAME].handlers[1].level = DEBUG
    /\ loggers[DEFAULT_NAME].handlers[1].formatter.fmt = logging_call.log_format

----------------------------------------------------------------------------
(* Properties of get_logger *)

\* this step is a call get_logger() with no name
GetDefaultLoggerStep ==
    /\ logging_call'.fn = "get_logger"
    /\ logging_call'.name = Nothing

\* the default logger has been set up: setup_logging gave it its handler
DefaultLoggerSetUp == loggers[DEFAULT_NAME].handlers # <<>>

\* C22: in any sequence of setup_logging and get_logger calls, get_logger()
\* with no name returns the default logger, the same one at every call, and
\* sets it up with the defaults only if it has not been set up before: a
\* default logger setup_logging has configured keeps its level and its
\* handler across get_logger().
C22_GetLoggerKeepsConfiguredDefault ==
    [][GetDefaultLoggerStep =>
          /\ returned_logger' = Some(DEFAULT_NAME)
          /\ IF DefaultLoggerSetUp
             THEN loggers'[DEFAULT_NAME] = loggers[DEFAULT_NAME]
             ELSE loggers'[DEFAULT_NAME] =
                      ConfiguredLogger(NewLogger, INFO, LOG_FORMAT, DATE_FORMAT)]_vars

----------------------------------------------------------------------------
(* Properties of progress_iter and of the iteration of a ProgressTracker *)

\* a for loop has started
Looping == loop.iterator # Nothing

\* the loop runs over a tracker inside its context manager: __iter__
\* returned the tracker, whose iterator __enter__ made
LoopOverEnteredTracker == loop.iterator = Some(SelfIterator)

\* C23: iterating the result of progress_iter, or a ProgressTracker inside
\* its context manager, yields exactly the items of the wrapped iterable, in
\* the original order and each exactly once, whether enabled is true or
\* false; an empty or absent iterable yields nothing.  At every point of the
\* loop the items got are the first items of the iterable, and when the loop
\* ends they are all of them.
C23_YieldsExactlyTheItems ==
    Looping =>
      /\ Len(loop.yielded) <= Len(loop.source)
      /\ loop.yielded = SubSeq(loop.source, 1, Len(loop.yielded))
      /\ loop.stopped => loop.yielded = loop.source
      /\ loop.source = <<>> => loop.yielded = <<>>

\* the loop over an enabled tracker inside its context manager has ended
\* after the three items of the list, one of which is in it twice
C23_Witness ==
    /\ LoopOverEnteredTracker
    /\ tracker.enabled
    /\ loop.stopped
    /\ loop.yielded = <<"a", "b", "a">>

\* a tracker created with enabled=False
DisabledTracker == tracker.created /\ ~ tracker.enabled

\* C24: for a ProgressTracker created with enabled false, any sequence of
\* start, update, set_status, set_description, finish, context entry and
\* context exit never creates a progress bar: the tracker's bar stays absent
\* in every reachable state and every one of these calls completes without
\* raising.
C24_DisabledTrackerHasNoBar ==
    DisabledTracker =>
      /\ tracker._pbar = Nothing
      /\ bars = <<>>
      /\ progress_raised = NoException

\* a disabled tracker over three items whose context has been entered: its
\* iterator is the list's own and there is no bar
C24_Witness ==
    /\ DisabledTracker
    /\ tracker.iterable = Some(<<"a", "b", "a">>)
    /\ tracker._iterator = Some(ListIterator(<<"a", "b", "a">>))
    /\ bars = <<>>

\* an enabled tracker used in manual mode: no context entry has made an
\* iterator
ManualMode == tracker.created /\ tracker.enabled /\ tracker._iterator = Nothing

\* every bar the tracker opened is closed
NoTrackerBarOpen(all_bars) ==
    \A b \in 1..Len(all_bars) : all_bars[b].owner = "tracker" => all_bars[b].closed

\* C30: for an enabled ProgressTracker in manual mode, after finish() returns
\* no progress bar opened by that tracker remains open, for every sequence of
\* start, update, set_status and finish calls (including start called twice
\* before finish); and update or set_status called before start or after
\* finish does nothing.
C30_FinishLeavesNoOpenBar ==
    [][/\ (ManualMode /\ Finish) => NoTrackerBarOpen(bars')
       /\ (ManualMode /\ tracker._pbar = Nothing /\ (Update \/ SetStatus))
             => UNCHANGED <<bars, tracker>>]_vars

----------------------------------------------------------------------------
(* Properties of the ranking *)

\* the exposure difference that ranks pool entry i among the darks
ExposureDiffOf(i) == ExposureOf(i).n - LightExposure.n

\* C25: when several surviving candidates tie on the ranking key (darks with
\* the same exposure difference, flats with the same day difference),
\* find_matching_dark and find_matching_flat return the tied candidate that
\* comes earliest in pool iteration order: no survivor before the returned
\* entry has the returned entry's key.
C25_TiesGoToEarliest ==
    /\ DarkCalled =>
         \A i, j \in 1..Len(pool) :
            (j < i /\ Returned(i) /\ PassesDarkFilters(j))
               => ExposureDiffOf(j) # ExposureDiffOf(i)
    /\ FlatCalled =>
         \A i, j \in 1..Len(pool) :
            (j < i /\ Returned(i) /\ InCandidates(j))
               => RecordedScore(j) # RecordedScore(i)

\* the first of two darks of the same exposure and of different temperatures
\* was returned, the second one having survived too
C25_Witness ==
    /\ DarkCalled
    /\ \E i, j \in 1..Len(pool) :
          /\ j < i /\ Returned(j) /\ PassesDarkFilters(i)
          /\ ExposureDiffOf(i) = ExposureDiffOf(j)
          /\ TempOf(i) # TempOf(j)

\* what the call in progress would have returned with the other value of
\* prefer_exact_exposure
ResultWithOtherPreference ==
    find_matching_dark(light, pool, call.temperature_tolerance,
                       ~ call.prefer_exact_exposure, call.match_gain, call.match_offset)

\* C27: the prefer_exact_exposure flag never changes the outcome: for every
\* light, pool and other parameter values, find_matching_dark returns the
\* same identifier (or none) with prefer_exact_exposure true as with it
\* false.
C27_PreferExactNeverMatters ==
    (DarkCalled /\ raised = NoException) => result = ResultWithOtherPreference

\* the calendar-date part of the date string is the date d
OnDay(value, d) == value # None /\ Slice(value.s, 10) = IsoDate(d)

\* C28: the day difference used by find_matching_flat depends only on the
\* calendar-date part of the light's and the flat's date strings: any
\* time-of-day part is ignored, so two date-time strings on the same calendar
\* day differ by 0 days and strings on consecutive calendar days differ by 1
\* day however close their times are.  The difference that excludes a flat
\* and the one recorded for ranking is the number of days between the two
\* calendar dates.
C28_DayDifferenceIgnoresTimeOfDay ==
    (FlatCalled /\ call.date_tolerance_days # Nothing)
      => \A i \in 1..Len(pool), dl \in DaysInARow, df \in DaysInARow :
            (PassesBeforeDate(i) /\ OnDay(light.date, dl) /\ OnDay(pool[i].meta.date, df))
               => IF DaysApart(dl, df) > call.date_tolerance_days[1]
                  THEN ~ InCandidates(i)
                  ELSE /\ InCandidates(i)
                       /\ RecordedScore(i) = FlatScore(Some(DaysApart(dl, df)))

\* the light was taken in the first second of its day; a flat of the last
\* second of the day before is recorded 1 day away, and a flat of the last
\* second of the light's day 0 days away
C28_Witness ==
    /\ FlatCalled
    /\ light.date = Str(IsoDateTime(Date(2024, 1, 15), Time(0, 0, 1)))
    /\ \E i, j \in 1..Len(pool) :
          /\ pool[i].meta.date = Str(IsoDateTime(Date(2024, 1, 14), Time(23, 59, 59)))
          /\ InCandidates(i) /\ RecordedScore(i) = FlatScore(Some(1))
          /\ pool[j].meta.date = Str(IsoDateTime(Date(2024, 1, 15), Time(23, 59, 59)))
          /\ InCandidates(j) /\ RecordedScore(j) = FlatScore(Some(0))

----------------------------------------------------------------------------
(* Properties of the temperature *)

\* the set temperatures a dark is given instead of its own: none, the
\* light's, 3 and 5 degrees colder, 10 degrees warmer
OtherTemperatures ==
    {None, Num(Units(-10)), Num(Units(-13)), Num(Units(-15)), Num(Units(0))}

\* the pool with the settemp of entry i replaced
PoolWithTemperature(i, temp) ==
    [pool EXCEPT ![i].meta.settemp = temp]

\* the temperature is absent, or the light's is, or the two are no further
\* apart than the tolerance of the call in progress
WithinTolerance(temp) ==
    \/ temp = None
    \/ LightTemp = None
    \/ ~ AbsAbove(FloatDifference(LightTemp, temp), call.temperature_tolerance)

\* C29: temperature only filters darks and never ranks them: among darks
\* that pass all filters, changing a dark's settemp to any other value that
\* is still within temperature_tolerance of the light (or removing it) never
\* changes which identifier find_matching_dark returns, so a dark with a
\* closer temperature is not preferred over an equally long dark earlier in
\* the pool.
C29_TemperatureNeverRanks ==
    (DarkCalled /\ raised = NoException)
      => \A i \in 1..Len(pool), temp \in OtherTemperatures :
            (PassesDarkFilters(i) /\ WithinTolerance(temp))
               => find_matching_dark(light, PoolWithTemperature(i, temp),
                                     call.temperature_tolerance,
                                     call.prefer_exact_exposure,
                                     call.match_gain, call.match_offset) = result

\* two darks of the light's exposure passed the filters; the first, 5
\* degrees off the light's temperature, was returned, and the second is at
\* the light's temperature
C29_Witness ==
    /\ DarkCalled
    /\ \E i, j \in 1..Len(pool) :
          /\ j < i /\ Returned(j) /\ PassesDarkFilters(i) /\ PassesDarkFilters(j)
          /\ ExposureOf(i) = ExposureOf(j)
          /\ TempOf(i) = LightTemp
          /\ TempOf(j) # None /\ TempOf(j).n = LightTemp.n - Units(5)

----------------------------------------------------------------------------
(* Properties of concurrent calls *)

\* what the call of the frame returns when it runs alone on the pool
ResultAlone(frame) ==
    IF frame.fn = "find_matching_dark"
    THEN find_matching_dark(frame.light, pool, DEFAULT_TEMPERATURE_TOLERANCE,
                            frame.prefer_exact_exposure, TRUE, TRUE)
    ELSE IF frame.fn = "find_matching_bias"
    THEN find_matching_bias(frame.light, pool, TRUE, TRUE)
    ELSE find_matching_flat(frame.light, pool, frame.date_tolerance_days, TRUE, TRUE)

\* C26: when several matcher calls for different light frames run
\* concurrently over one shared, externally unmodified pool, under every
\* interleaving of their steps each call returns the same result it returns
\* when run alone, because no call writes any shared state.
C26_ConcurrentCallsAgreeWithAlone ==
    \A t \in DOMAIN frames :
        frames[t].pc = "done" => frames[t].result = ResultAlone(frames[t])

\* thread t1 has returned a dark while thread t2, whose call began before,
\* is in the middle of its loop with a candidate in its list; the two calls
\* alone return different files
C26_Witness ==
    /\ DOMAIN frames = Threads
    /\ frames["t1"].pc = "done" /\ frames["t1"].fn = "find_matching_dark"
    /\ frames["t1"].result # Nothing
    /\ frames["t2"].pc = "loop" /\ frames["t2"].fn = "find_matching_dark"
    /\ frames["t2"].i = 1 /\ frames["t2"].i < Len(pool)
    /\ frames["t2"].candidates # <<>>
    /\ ResultAlone(frames["t2"]) # frames["t1"].result

====
